---- MODULE Spec2Model ----
(***************************************************************************)
(* A model of nsf/sexp: the source location model (location.go), the       *)
(* recursive-descent S-expression parser (parser.go) and the reflective    *)
(* decoder (node.go).                                                      *)
(*                                                                         *)
(* Runes and bytes are integers.  A Node is a record                       *)
(*   [Location, Value, Children]                                           *)
(* where Value is the sequence of bytes of the Go string and Children is   *)
(* the sequence of the nodes on the Children/Next chain: a nil Children    *)
(* pointer is the empty sequence.                                          *)
(***************************************************************************)
EXTENDS Integers, Sequences, FiniteSets, TLC

VARIABLES
    ctx,     \* the SourceContext: [files |-> sequence of SourceFile]
    p,       \* the parser struct, its call stack and parse()'s results
    todo,    \* the streams the caller still has to hand to Parse
    rets,    \* what each Parse call has returned so far
    targets, \* the variables a decode is given pointers to: [t |-> type, v |-> value]
    heap,    \* what slices, maps and pointers refer to
    last,    \* the decoder call made on the parsed tree, Nil before it
    waiting  \* the parsers of the goroutines that are not running, each
             \* stopped between two of its steps

pvars == <<ctx, p, todo, rets>>
dvars == <<targets, heap, last, waiting>>
vars == <<ctx, p, todo, rets, targets, heap, last, waiting>>

(***************************************************************************)
(* Bounds of the model.                                                    *)
(***************************************************************************)
MaxLen == 3      \* tokens per input stream
MaxFiles == 2    \* files registered in one SourceContext

(***************************************************************************)
(* Runes.                                                                  *)
(***************************************************************************)
NUL == 0
Tab == 9
NL == 10
CR == 13
Space == 32
DQuote == 34
LParen == 40
RParen == 41
Semi == 59
Backslash == 92
BQuote == 96
LowerA == 97
LowerX == 120
Zhe == 1078

Nil == [nil |-> TRUE]

\* the panic value io.EOF
EOFPanic == [eof |-> TRUE]

seq_delims(r) ==
    CASE r = LParen -> RParen
      [] r = BQuote -> BQuote
      [] r = DQuote -> DQuote
      [] OTHER -> 0

is_hex(r) ==
    \/ (r >= 48 /\ r <= 57)
    \/ (r >= 97 /\ r <= 102)
    \/ (r >= 65 /\ r <= 70)

is_space(r) == r = Space \/ r = Tab \/ r = NL \/ r = CR

is_delimiter(r) == is_space(r) \/ r = RParen \/ r = Semi \/ r = 0

\* the size bufio.Reader.ReadRune reports for a well-formed rune
RuneLen(r) ==
    IF r < 128 THEN 1 ELSE IF r < 2048 THEN 2 ELSE IF r < 65536 THEN 3 ELSE 4

\* bytes.Buffer.WriteRune: the UTF-8 encoding, U+FFFD for an invalid rune
WriteRune(buf, r) ==
    IF r < 0 \/ r > 1114111 \/ (r >= 55296 /\ r <= 57343)
    THEN buf \o <<239, 191, 189>>
    ELSE IF r < 128 THEN Append(buf, r)
    ELSE IF r < 2048 THEN buf \o <<192 + (r \div 64), 128 + (r % 64)>>
    ELSE IF r < 65536
    THEN buf \o <<224 + (r \div 4096), 128 + ((r \div 64) % 64), 128 + (r % 64)>>
    ELSE buf \o <<240 + (r \div 262144), 128 + ((r \div 4096) % 64),
                  128 + ((r \div 64) % 64), 128 + (r % 64)>>

(***************************************************************************)
(* location.go                                                             *)
(***************************************************************************)
last_line(f) == f.lines[Len(f.lines)]

RECURSIVE find_line_loop(_, _, _, _)
find_line_loop(lines, offset, beg, end) ==
    LET len == end - beg
        mid == beg + (len \div 2)
    IN  IF len = 1 THEN lines[beg + 1]
        ELSE IF lines[mid + 1].offset > offset
             THEN find_line_loop(lines, offset, beg, mid)
             ELSE find_line_loop(lines, offset, mid, end)

find_line_first(f, offset) == f.lines[1]

find_line(f, offset) == find_line_loop(f.lines, offset, 0, Len(f.lines))

\* mutant: the marker is put at the newline, not after it
AddLine_at_newline(f, offset) ==
    [f EXCEPT !.lines = Append(@, [offset |-> offset - 1, num |-> last_line(f).num + 1])]

AddLine(f, offset) ==
    [f EXCEPT !.lines = Append(@, [offset |-> offset, num |-> last_line(f).num + 1])]

\* SourceLoc is a uint32; the offsets of the model stay far below its width
Encode(f, offset) == f.offset + offset

Finalize(f, len) == [f EXCEPT !.length = len]

last_file(s) == s.files[Len(s.files)]

RECURSIVE find_file_loop(_, _, _, _)
find_file_loop(files, l, beg, end) ==
    LET len == end - beg
        mid == beg + (len \div 2)
    IN  IF len = 1 THEN beg + 1
        ELSE IF files[mid + 1].offset > l
             THEN find_file_loop(files, l, beg, mid)
             ELSE find_file_loop(files, l, mid, end)

\* the index in s.files of the file find_file returns
find_file(s, l) == find_file_loop(s.files, l, 0, Len(s.files))

AddFilePanics_never(s) == FALSE

AddFilePanics(s) == Len(s.files) # 0 /\ last_file(s).length = -1

NewFile(s, filename, length) ==
    [name |-> filename,
     offset |-> IF Len(s.files) # 0
                THEN last_file(s).offset + last_file(s).length
                ELSE 0,
     length |-> length,
     lines |-> <<[offset |-> 0, num |-> 1]>>]

AddFile(s, filename, length) ==
    [s EXCEPT !.files = Append(@, NewFile(s, filename, length))]

Decode(s, loc) ==
    LET file == s.files[find_file(s, loc)]
        offset == loc - file.offset
        line == find_line(file, offset)
    IN  [Filename |-> file.name,
         Line |-> line.num,
         Column |-> offset - line.offset,
         Offset |-> offset]

(***************************************************************************)
(* node.go: the node model                                                 *)
(***************************************************************************)
NewNode(loc, value, children) ==
    [Location |-> loc, Value |-> value, Children |-> children]

IsList(n) == n.Children # <<>>

IsScalar(n) == n.Children = <<>>

NumChildren(n) == Len(n.Children)

(***************************************************************************)
(* parser.go.  A machine m is [p |-> the parser, f |-> its SourceFile].    *)
(* p.exc is the value of a panic in flight (Nil: none).  The reader p.r is *)
(* the stream's runes, the position of the next one, whether the stream    *)
(* ends in a read error instead of io.EOF, and whether ReadRune has        *)
(* returned io.EOF.                                                        *)
(***************************************************************************)
NewError(loc, kind, arg) == [Location |-> loc, kind |-> kind, arg |-> arg]

\* p.error: panic with an *Error
error(m, loc, kind, arg) == [m EXCEPT !.p.exc = NewError(loc, kind, arg)]

delim_state(q) == [last_seq |-> q.last_seq, expect_eof |-> q.expect_eof]

\* mutant: the end of the input stays acceptable in the construct
advance_delim_state_keeps_eof(m) ==
    [m EXCEPT !.p.last_seq = [offset |-> m.p.offset, rune |-> m.p.cur]]

advance_delim_state(m) ==
    [m EXCEPT !.p.last_seq = [offset |-> m.p.offset, rune |-> m.p.cur],
              !.p.expect_eof = FALSE]

\* mutant: the enclosing construct's state is not put back
restore_delim_state_skipped(m, s) == m

restore_delim_state(m, s) ==
    [m EXCEPT !.p.last_seq = s.last_seq, !.p.expect_eof = s.expect_eof]

next(m) ==
    LET off == m.p.offset + m.p.curlen
        m1 == [m EXCEPT !.p.offset = off]
        rd == m.p.r
    IN  IF rd.pos > Len(rd.data)
        THEN IF ~rd.fail
             THEN IF m.p.expect_eof
                  THEN [m1 EXCEPT !.p.cur = 0, !.p.curlen = 0, !.p.r.eof = TRUE]
                  ELSE error([m1 EXCEPT !.p.r.eof = TRUE],
                             Encode(m.f, m.p.last_seq.offset), "missing",
                             seq_delims(m.p.last_seq.rune))
             ELSE error(m1, Encode(m.f, off), "read", 0)
        ELSE LET r == rd.data[rd.pos]
                 s == RuneLen(r)
             IN  [m1 EXCEPT !.p.cur = r, !.p.curlen = s, !.p.r.pos = @ + 1,
                            !.f = IF r = NL THEN AddLine(m.f, off + s) ELSE @]

\* run F unless a panic is in flight
Then(m, F(_)) == IF m.p.exc # Nil THEN m ELSE F(m)

goto(m, pc) == [m EXCEPT !.p.pc = pc]

\* mutant: a node with no value and no children is taken for nil
link_unless_empty(m, node) ==
    IF node.Value = <<>> /\ node.Children = <<>> THEN [m EXCEPT !.p.pc = "loop"]
    ELSE IF m.p.frames = <<>>
    THEN [m EXCEPT !.p.root.Children = Append(@, node), !.p.pc = "loop"]
    ELSE [m EXCEPT !.p.frames[Len(m.p.frames)].children = Append(@, node),
                   !.p.pc = "loop"]

\* a node returned by parse_node is linked by the caller: parse() or parse_list()
link(m, node) ==
    IF m.p.frames = <<>>
    THEN [m EXCEPT !.p.root.Children = Append(@, node), !.p.pc = "loop"]
    ELSE [m EXCEPT !.p.frames[Len(m.p.frames)].children = Append(@, node),
                   !.p.pc = "loop"]

\* parse_list up to its loop: the frame holds loc, save and head's children
parse_list_open(m) ==
    LET frame == [loc |-> Encode(m.f, m.p.offset), save |-> delim_state(m.p),
                  children |-> <<>>]
        m1 == advance_delim_state(m)
        m2 == [m1 EXCEPT !.p.frames = Append(@, frame)]
    IN  goto(next(m2), "loop")

\* parse_list at the closing ')'
parse_list_close(m) ==
    LET top == m.p.frames[Len(m.p.frames)]
        m1 == next(restore_delim_state(m, top.save))
        pop(x) == link([x EXCEPT !.p.frames = SubSeq(@, 1, Len(@) - 1)],
                       NewNode(top.loc, <<>>, top.children))
    IN  Then(m1, pop)

parse_string_open(m) ==
    LET m1 == [m EXCEPT !.p.loc = Encode(m.f, m.p.offset), !.p.save = delim_state(m.p)]
    IN  goto(next(advance_delim_state(m1)), "string")

\* the node parse_string, parse_raw_string and parse_ident build from p.buf
buf_node(m) == NewNode(m.p.loc, m.p.buf, <<>>)

reset_buf(m) == [m EXCEPT !.p.buf = <<>>]

write_rune(m) == [m EXCEPT !.p.buf = WriteRune(@, m.p.cur)]

\* one iteration of parse_string's loop
parse_string_step(m) ==
    LET node == buf_node(m)
        ret(x) == link(x, node)
    IN  CASE m.p.cur = NL -> error(m, m.p.loc, "newline", 0)
          [] m.p.cur = Backslash ->
                goto(next([m EXCEPT !.p.esc_loc = Encode(m.f, m.p.offset)]), "esc")
          [] m.p.cur = DQuote ->
                Then(next(restore_delim_state(reset_buf(m), m.p.save)), ret)
          [] OTHER -> next(write_rune(m))

\* mutant: the escape letter itself is written
esc_byte_letter(r) ==
    IF r \in {97, 98, 102, 110, 114, 116, 118, Backslash, DQuote} THEN r ELSE -1

\* the byte of a one-character escape, -1 for none
esc_byte(r) ==
    CASE r = 97 -> 7
      [] r = 98 -> 8
      [] r = 102 -> 12
      [] r = 110 -> 10
      [] r = 114 -> 13
      [] r = 116 -> 9
      [] r = 118 -> 11
      [] r = Backslash -> Backslash
      [] r = DQuote -> DQuote
      [] OTHER -> -1

\* the number of hex digits an escape letter asks for, 0 for none
esc_hex_len(r) ==
    CASE r = LowerX -> 2
      [] r = 117 -> 4
      [] r = 85 -> 8
      [] OTHER -> 0

\* parse_esc_seq after its p.next(): the switch on p.cur
parse_esc_seq(m) ==
    LET wr(x) == goto([x EXCEPT !.p.buf = Append(@, esc_byte(m.p.cur))], "string")
        hx(x) == goto([x EXCEPT !.p.hex = <<>>, !.p.hexn = esc_hex_len(m.p.cur)], "hex")
    IN  IF esc_byte(m.p.cur) # -1 THEN Then(next(m), wr)
        ELSE IF esc_hex_len(m.p.cur) # 0 THEN Then(next(m), hx)
        ELSE error(m, m.p.esc_loc, "esc", 0)

hex_digit(r) ==
    IF r >= 48 /\ r <= 57 THEN r - 48
    ELSE IF r >= 97 /\ r <= 102 THEN r - 87
    ELSE r - 55

\* strconv.ParseUint(hex, 16, 4n) followed by rune(r); every value above
\* the last rune is invalid for WriteRune and is kept as 1114112
RECURSIVE hex_value(_, _)
hex_value(hex, acc) ==
    IF hex = <<>> THEN acc
    ELSE LET v == acc * 16 + hex_digit(Head(hex))
         IN  hex_value(Tail(hex), IF v > 1114111 THEN 1114112 ELSE v)

\* parse_hex_rune after next_hex has filled the digits
parse_hex_rune(m) ==
    LET r == hex_value(m.p.hex, 0)
    IN  goto([m EXCEPT !.p.buf = IF m.p.hexn = 2 THEN Append(@, r % 256)
                                 ELSE WriteRune(@, r)], "string")

\* one iteration of next_hex's loop; after the last one parse_hex_rune goes on
next_hex(m) ==
    LET m1 == [m EXCEPT !.p.hex = Append(@, m.p.cur)]
        fin(x) == IF Len(x.p.hex) = x.p.hexn THEN parse_hex_rune(x) ELSE x
    IN  IF ~is_hex(m.p.cur)
        THEN error(m, Encode(m.f, m.p.offset), "hex", m.p.cur)
        ELSE Then(next(m1), fin)

parse_raw_string_open(m) ==
    LET m1 == [m EXCEPT !.p.loc = Encode(m.f, m.p.offset), !.p.save = delim_state(m.p)]
    IN  goto(next(advance_delim_state(m1)), "raw")

parse_raw_string_step(m) ==
    LET node == buf_node(m)
        ret(x) == link(x, node)
    IN  IF m.p.cur = BQuote
        THEN Then(next(restore_delim_state(reset_buf(m), m.p.save)), ret)
        ELSE next(write_rune(m))

parse_ident_open(m) == goto([m EXCEPT !.p.loc = Encode(m.f, m.p.offset)], "ident")

parse_ident_step(m) ==
    IF is_delimiter(m.p.cur)
    THEN link(reset_buf(m), buf_node(m))
    ELSE next(write_rune(m))

\* mutant: the comment's characters are not read
skip_comment_stays(m) == goto(m, "again")

\* one iteration of skip_comment's loop; parse_node then skips spaces
skip_comment(m) ==
    IF m.p.cur = 0 THEN goto(m, "again")
    ELSE IF m.p.cur # NL THEN next(m)
    ELSE goto(next(m), "again")

parse_node_nil_skips(m) == goto(next(m), "loop")

\* parse_node returned nil: parse() fails, parse_list() goes round its loop
parse_node_nil(m) ==
    IF m.p.frames = <<>>
    THEN error(m, Encode(m.f, m.p.offset), "rparen", 0)
    ELSE goto(m, "loop")

\* mutant: the tree built so far is returned beside the error
recover_keeps_root(m) ==
    LET m1 == [m EXCEPT !.f = Finalize(@, m.p.offset)]
        e == m.p.exc
    IN  IF e = EOFPanic THEN [m1 EXCEPT !.p.pc = "done", !.p.exc = Nil]
        ELSE IF "kind" \in DOMAIN e
        THEN [m1 EXCEPT !.p.pc = "done", !.p.exc = Nil, !.p.err = e]
        ELSE [m1 EXCEPT !.p.pc = "crashed"]

\* the deferred function of parse()
recover(m) ==
    LET m1 == [m EXCEPT !.f = Finalize(@, m.p.offset)]
        e == m.p.exc
    IN  IF e = EOFPanic THEN [m1 EXCEPT !.p.pc = "done", !.p.exc = Nil]
        ELSE IF "kind" \in DOMAIN e
        THEN [m1 EXCEPT !.p.pc = "done", !.p.exc = Nil, !.p.root = Nil, !.p.err = e]
        ELSE [m1 EXCEPT !.p.pc = "crashed"]

\* ParseFile: the parser as initialised, then parse() up to its loop
ParseFile(r, fi) ==
    [r |-> [data |-> r.data, pos |-> 1, fail |-> r.fail, eof |-> FALSE],
     f |-> fi,
     buf |-> <<>>,
     line |-> 1,
     offset |-> 0,
     cur |-> 0,
     curlen |-> 0,
     last_seq |-> [offset |-> -1, rune |-> 0],
     expect_eof |-> TRUE,
     pc |-> "loop",
     frames |-> <<>>,
     loc |-> 0,
     save |-> [last_seq |-> [offset |-> -1, rune |-> 0], expect_eof |-> TRUE],
     esc_loc |-> 0,
     hex |-> <<>>,
     hexn |-> 0,
     root |-> NewNode(0, <<>>, <<>>),
     err |-> Nil,
     exc |-> Nil]

IdleParser == [ParseFile([data |-> <<>>, fail |-> FALSE], 0) EXCEPT !.pc = "idle"]

(***************************************************************************)
(* The actions of the parser.                                              *)
(***************************************************************************)
Machine == [p |-> p, f |-> ctx.files[p.f]]

Commit_first_file(m) ==
    /\ p' = IF m.p.exc # Nil THEN [m.p EXCEPT !.pc = "panic"] ELSE m.p
    /\ ctx' = [ctx EXCEPT !.files[1] = m.f]
    /\ UNCHANGED <<todo, rets>>
    /\ UNCHANGED dvars

\* the machine after a step: a panic unwinds to parse()'s deferred function
Commit(m) ==
    /\ p' = IF m.p.exc # Nil THEN [m.p EXCEPT !.pc = "panic"] ELSE m.p
    /\ ctx' = [ctx EXCEPT !.files[p.f] = m.f]
    /\ UNCHANGED <<todo, rets>>
    /\ UNCHANGED dvars

InList == p.frames # <<>>

\* parse_node is entered from a loop (not at a list's ')') or from its own
\* `again` label, on a character that is not a space
AtNode ==
    /\ \/ p.pc = "loop" /\ ~(InList /\ p.cur = RParen)
       \/ p.pc = "again"
    /\ ~is_space(p.cur)

\* Parse: AddFile, ParseFile, and parse() up to its loop
StartParse ==
    /\ p.pc \in {"idle", "done"}
    /\ todo # <<>>
    /\ LET s == Head(todo)
           c == AddFile(ctx, Len(ctx.files) + 1, s.length)
           q == ParseFile(s, Len(c.files))
           m == next([p |-> q, f |-> c.files[q.f]])
       IN  IF AddFilePanics(ctx)
           THEN /\ p' = [p EXCEPT !.pc = "crashed"]
                /\ ctx' = ctx
           ELSE /\ p' = IF m.p.exc # Nil THEN [m.p EXCEPT !.pc = "panic"] ELSE m.p
                /\ ctx' = [c EXCEPT !.files[q.f] = m.f]
    /\ todo' = Tail(todo)
    /\ rets' = rets
    /\ UNCHANGED dvars

SkipSpaces ==
    /\ p.pc \in {"loop", "again"}
    /\ is_space(p.cur)
    /\ Commit(next(Machine))

ParseListClose ==
    /\ p.pc = "loop"
    /\ InList
    /\ p.cur = RParen
    /\ Commit(parse_list_close(Machine))

ParseNodeNil ==
    /\ AtNode
    /\ p.cur = RParen
    /\ Commit(parse_node_nil(Machine))

ParseListOpen ==
    /\ AtNode
    /\ p.cur = LParen
    /\ Commit(parse_list_open(Machine))

ParseStringOpen ==
    /\ AtNode
    /\ p.cur = DQuote
    /\ Commit(parse_string_open(Machine))

ParseRawStringOpen ==
    /\ AtNode
    /\ p.cur = BQuote
    /\ Commit(parse_raw_string_open(Machine))

ParseNodeComment ==
    /\ AtNode
    /\ p.cur = Semi
    /\ Commit(goto(Machine, "comment"))

\* "delayed expected EOF"
ParseNodeEOF ==
    /\ AtNode
    /\ p.cur = 0
    /\ Commit([Machine EXCEPT !.p.exc = EOFPanic])

ParseIdentOpen ==
    /\ AtNode
    /\ p.cur \notin {RParen, LParen, DQuote, BQuote, Semi, 0}
    /\ Commit(parse_ident_open(Machine))

SkipComment ==
    /\ p.pc = "comment"
    /\ Commit(skip_comment(Machine))

ParseString ==
    /\ p.pc = "string"
    /\ Commit(parse_string_step(Machine))

ParseEscSeq ==
    /\ p.pc = "esc"
    /\ Commit(parse_esc_seq(Machine))

NextHex ==
    /\ p.pc = "hex"
    /\ Commit(next_hex(Machine))

ParseRawString ==
    /\ p.pc = "raw"
    /\ Commit(parse_raw_string_step(Machine))

ParseIdent ==
    /\ p.pc = "ident"
    /\ Commit(parse_ident_step(Machine))

Recover ==
    /\ p.pc = "panic"
    /\ LET m == recover(Machine)
       IN  /\ p' = m.p
           /\ ctx' = [ctx EXCEPT !.files[p.f] = m.f]
           /\ rets' = IF m.p.pc = "done"
                      THEN Append(rets, [f |-> p.f, root |-> m.p.root, err |-> m.p.err])
                      ELSE rets
    /\ todo' = todo
    /\ UNCHANGED dvars

\* after a parse the caller registers one more file of a known length
AddFileCall ==
    /\ p.pc = "done"
    /\ Len(ctx.files) < MaxFiles
    /\ ~AddFilePanics(ctx)
    /\ \E length \in {0, 2} : ctx' = AddFile(ctx, Len(ctx.files) + 1, length)
    /\ UNCHANGED <<p, todo, rets>>
    /\ UNCHANGED dvars

(***************************************************************************)
(* The input streams: up to MaxLen tokens, ended by EOF or a read error.   *)
(***************************************************************************)
Tokens ==
    {<<LParen>>, <<RParen>>, <<DQuote>>, <<BQuote>>, <<Semi>>, <<Space>>, <<NL>>,
     <<LowerA>>, <<Backslash>>, <<NUL>>, <<Zhe>>, <<Backslash, LowerX>>}

RECURSIVE TokenSeqs(_)
TokenSeqs(n) ==
    IF n = 0 THEN {<<>>}
    ELSE LET prev == TokenSeqs(n - 1)
         IN  prev \cup {s \o t : s \in prev, t \in Tokens}

Streams == [data : TokenSeqs(MaxLen), fail : BOOLEAN, length : {-1}]

\* longer streams: comments after an atom, in a list and around a NUL;
\* nested lists and strings of bytes that %q escapes
LongStreams ==
    [data : {<<LowerA, Space, Semi, LowerA, NL, LowerA>>,
             <<LParen, LowerA, Semi, LowerA, NL, LParen, Semi, NL, RParen, RParen>>,
             <<DQuote, Semi, DQuote, BQuote, Semi, BQuote, Semi>>,
             <<Semi, NUL, NL, LowerA>>,
             <<LParen, LParen, RParen, BQuote, DQuote, Backslash, BQuote, RParen>>,
             <<LParen, LowerA, Space, LParen, Zhe, Space, LParen, DQuote, NUL, DQuote,
               RParen, RParen, RParen, BQuote, NL, 127, BQuote>>},
     fail : {FALSE}, length : {-1}]

\* Quoted strings with escapes: "\c" for the escape letters and for other
\* runes; "a\xHH" for H among the ends of the three ranges of hex digits,
\* their neighbours, a quote and a NUL; \u and \U escapes.
EscapeStreams ==
    LET EscRunes == {97, 98, 102, 110, 114, 116, 118, Backslash, DQuote, LowerX, 117, 85,
                     122, 48, 65, 88, NUL, NL, Space, Zhe}
        HexRunes == {48, 57, 65, 70, 97, 102, 47, 58, 64, 71, 96, 103, DQuote, NUL}
    IN  [data : {<<DQuote, Backslash, c, DQuote>> : c \in EscRunes}
                \cup {<<DQuote, LowerA, Backslash, LowerX, h1, h2, DQuote>> :
                         h1 \in HexRunes, h2 \in HexRunes}
                \cup {<<DQuote, Backslash, 117, 48, 52, 51, 54, Backslash, 114, DQuote>>,
                      <<DQuote, Backslash, 117, 48, 52, 74, 54, DQuote>>,
                      <<DQuote, Backslash, 117, 68, 56, 48, 48, DQuote>>,
                      <<DQuote, Backslash, 85, 48, 48, 49, 48, 49, 50, 51, 52,
                        Backslash, 116, DQuote>>,
                      <<DQuote, Backslash, 85, 48, 48, 49, DQuote>>,
                      <<DQuote, Backslash, 97, Backslash, 98, Backslash, 102, Backslash,
                        110, Backslash, 114, Backslash, 116, Backslash, 118, Backslash,
                        Backslash, Backslash, DQuote, DQuote>>},
         fail : {FALSE}, length : {-1}]

\* the context is new, or holds one file registered earlier
Contexts == {[files |-> <<>>], AddFile([files |-> <<>>], 1, 2)}

Init ==
    /\ ctx \in Contexts
    /\ p = IdleParser
    /\ \E s \in Streams \cup LongStreams \cup EscapeStreams : todo = <<s>>
    /\ rets = <<>>
    /\ targets = <<>>
    /\ heap = <<>>
    /\ last = Nil
    /\ waiting = <<>>

Next ==
    \/ StartParse
    \/ SkipSpaces
    \/ ParseListClose
    \/ ParseNodeNil
    \/ ParseListOpen
    \/ ParseStringOpen
    \/ ParseRawStringOpen
    \/ ParseNodeComment
    \/ ParseNodeEOF
    \/ ParseIdentOpen
    \/ SkipComment
    \/ ParseString
    \/ ParseEscSeq
    \/ NextHex
    \/ ParseRawString
    \/ ParseIdent
    \/ Recover
    \/ AddFileCall

Spec == Init /\ [][Next]_vars

\* the steps of a Parse call: everything but what the caller does after it
Run ==
    \/ StartParse
    \/ SkipSpaces
    \/ ParseListClose
    \/ ParseNodeNil
    \/ ParseListOpen
    \/ ParseStringOpen
    \/ ParseRawStringOpen
    \/ ParseNodeComment
    \/ ParseNodeEOF
    \/ ParseIdentOpen
    \/ SkipComment
    \/ ParseString
    \/ ParseEscSeq
    \/ NextHex
    \/ ParseRawString
    \/ ParseIdent
    \/ Recover

\* Parse is sequential code on a reader that answers every read: the call,
\* once made, keeps running
SpecFair == Init /\ [][Next]_vars /\ WF_vars(Run)

(***************************************************************************)
(* Parallel parsing: the files are registered with their lengths, then one *)
(* goroutine per file calls ParseFile.  p is the parser of the goroutine   *)
(* that runs, waiting holds the others; the scheduler may switch between   *)
(* any two steps.                                                          *)
(***************************************************************************)
\* the streams parsed in parallel
ParallelStreams ==
    {[data |-> <<LowerA, NL, LowerA>>, fail |-> FALSE, length |-> 3],
     [data |-> <<LParen, LowerA, NL, RParen>>, fail |-> FALSE, length |-> 4],
     [data |-> <<DQuote, Backslash, LowerX, 52, 49, DQuote, NL>>, fail |-> FALSE,
      length |-> 7],
     [data |-> <<BQuote, NL, BQuote>>, fail |-> FALSE, length |-> 3],
     [data |-> <<Semi, LowerA, NL, RParen>>, fail |-> FALSE, length |-> 4],
     [data |-> <<LParen, NL>>, fail |-> FALSE, length |-> 2],
     [data |-> <<LowerA, NL>>, fail |-> TRUE, length |-> 2]}

\* the context after AddFile for each of the streams
RECURSIVE RegisterAll(_, _)
RegisterAll(s, streams) ==
    IF streams = <<>> THEN s
    ELSE RegisterAll(AddFile(s, Len(s.files) + 1, Head(streams).length), Tail(streams))

InitParallel ==
    /\ \E s1 \in ParallelStreams, s2 \in ParallelStreams :
          /\ todo = <<s1, s2>>
          /\ ctx = RegisterAll([files |-> <<>>], <<s1, s2>>)
    /\ p = [IdleParser EXCEPT !.f = 1]
    /\ waiting = <<[IdleParser EXCEPT !.f = 2]>>
    /\ rets = <<>>
    /\ targets = <<>>
    /\ heap = <<>>
    /\ last = Nil

\* ParseFile on the goroutine's file, and parse() up to its loop
ParseFileCall ==
    /\ p.pc = "idle"
    /\ p.f \in 1..Len(todo)
    /\ Commit(next([p |-> ParseFile(todo[p.f], p.f), f |-> ctx.files[p.f]]))

\* the scheduler runs another goroutine
Yield ==
    /\ \E i \in 1..Len(waiting) :
          /\ p' = waiting[i]
          /\ waiting' = [waiting EXCEPT ![i] = p]
    /\ UNCHANGED <<ctx, todo, rets, targets, heap, last>>

NextParallel ==
    \/ ParseFileCall
    \/ Yield
    \/ SkipSpaces
    \/ ParseListClose
    \/ ParseNodeNil
    \/ ParseListOpen
    \/ ParseStringOpen
    \/ ParseRawStringOpen
    \/ ParseNodeComment
    \/ ParseNodeEOF
    \/ ParseIdentOpen
    \/ SkipComment
    \/ ParseString
    \/ ParseEscSeq
    \/ NextHex
    \/ ParseRawString
    \/ ParseIdent
    \/ Recover

SpecParallel == InitParallel /\ [][NextParallel]_vars

(***************************************************************************)
(* parse() as a function: the machine when it returns, for a run that no   *)
(* other goroutine shares.                                                 *)
(***************************************************************************)
at_node(q) ==
    /\ \/ q.pc = "loop" /\ ~(q.frames # <<>> /\ q.cur = RParen)
       \/ q.pc = "again"
    /\ ~is_space(q.cur)

\* a panic unwinds to the deferred function
unwind(m) == IF m.p.exc # Nil THEN [m EXCEPT !.p.pc = "panic"] ELSE m

parse_step(m) ==
    CASE m.p.pc = "panic" -> recover(m)
      [] m.p.pc \in {"loop", "again"} /\ is_space(m.p.cur) -> unwind(next(m))
      [] m.p.pc = "loop" /\ m.p.frames # <<>> /\ m.p.cur = RParen ->
            unwind(parse_list_close(m))
      [] at_node(m.p) /\ m.p.cur = RParen -> unwind(parse_node_nil(m))
      [] at_node(m.p) /\ m.p.cur = LParen -> unwind(parse_list_open(m))
      [] at_node(m.p) /\ m.p.cur = DQuote -> unwind(parse_string_open(m))
      [] at_node(m.p) /\ m.p.cur = BQuote -> unwind(parse_raw_string_open(m))
      [] at_node(m.p) /\ m.p.cur = Semi -> unwind(goto(m, "comment"))
      [] at_node(m.p) /\ m.p.cur = 0 -> unwind([m EXCEPT !.p.exc = EOFPanic])
      [] at_node(m.p) /\ m.p.cur \notin {RParen, LParen, DQuote, BQuote, Semi, 0} ->
            unwind(parse_ident_open(m))
      [] m.p.pc = "comment" -> unwind(skip_comment(m))
      [] m.p.pc = "string" -> unwind(parse_string_step(m))
      [] m.p.pc = "esc" -> unwind(parse_esc_seq(m))
      [] m.p.pc = "hex" -> unwind(next_hex(m))
      [] m.p.pc = "raw" -> unwind(parse_raw_string_step(m))
      [] m.p.pc = "ident" -> unwind(parse_ident_step(m))

RECURSIVE parse(_)
parse(m) == IF m.p.pc \in {"done", "crashed"} THEN m ELSE parse(parse_step(m))

\* ParseFile(r, f) run on its own
ParseFileAlone(r, fi, f) == parse(unwind(next([p |-> ParseFile(r, fi), f |-> f])))

(***************************************************************************)
(* node.go: the decoder.                                                   *)
(*                                                                         *)
(* A type is a record [k, bits, n, elem, key, fields, um, nmeth]: its      *)
(* kind, the width of an integer, the length of an array, the element and  *)
(* key types, the fields of a struct, the UnmarshalSexp its pointer type   *)
(* implements ("": none) and the number of methods of an interface.        *)
(*                                                                         *)
(* A value is an integer, a boolean, a string (its bytes), an array or a   *)
(* struct (the sequence of its elements or fields), a slice header         *)
(* [arr, len, cap], a map [map] or a pointer [ptr].  arr, map and ptr name *)
(* a cell of the heap (0: nil): a backing array, the entries of a map, the *)
(* pointee.  An interface holds [str] or [list], or Nil.                   *)
(*                                                                         *)
(* d is the state a decode threads through: the heap d.h, the panic in     *)
(* flight d.exc, the calls made to UnmarshalSexp d.calls and the number of *)
(* error objects allocated d.nobj.                                         *)
(***************************************************************************)
BaseT == [k |-> "", bits |-> 0, n |-> 0, elem |-> Nil, key |-> Nil, fields |-> <<>>,
          um |-> "", nmeth |-> 0]

PtrTo(t) == [BaseT EXCEPT !.k = "ptr", !.elem = t]

RECURSIVE Zero(_)
\* reflect.Zero
Zero(t) ==
    CASE t.k \in {"int", "uint"} -> 0
      [] t.k = "bool" -> FALSE
      [] t.k = "string" -> <<>>
      [] t.k = "array" -> <<>> \o [i \in 1..t.n |-> Zero(t.elem)]
      [] t.k = "slice" -> [arr |-> 0, len |-> 0, cap |-> 0]
      [] t.k = "map" -> [map |-> 0]
      [] t.k = "ptr" -> [ptr |-> 0]
      [] t.k = "struct" -> <<>> \o [i \in 1..Len(t.fields) |-> Zero(t.fields[i].type)]
      [] OTHER -> Nil

Text(s) == [text |-> s]

RECURSIVE Sprintf(_)
\* fmt.Sprintf of a format with no operands, on the bytes of the format
Sprintf(s) ==
    IF s = <<>> THEN <<>>
    ELSE IF Head(s) # 37 THEN <<Head(s)>> \o Sprintf(Tail(s))
    ELSE IF Len(s) = 1 THEN <<37, 33, 40, 78, 79, 86, 69, 82, 66, 41>>
    ELSE IF s[2] = 37 THEN <<37>> \o Sprintf(SubSeq(s, 3, Len(s)))
    ELSE <<37, 33, s[2], 40, 77, 73, 83, 83, 73, 78, 71, 41>>
         \o Sprintf(SubSeq(s, 3, Len(s)))

\* a message is [text |-> a literal of the source, which holds no '%'] or
\* [bytes |-> the bytes of a caller's text]
Format(msg) == IF "bytes" \in DOMAIN msg THEN [bytes |-> Sprintf(msg.bytes)] ELSE msg

NewUnmarshalError(obj, n, t, message) ==
    [obj |-> obj, kind |-> "UnmarshalError", Type |-> t, Node |-> n,
     message |-> Format(message)]

\* errors.New
ErrorString(obj, message) == [obj |-> obj, kind |-> "errorString", message |-> message]

\* n.unmarshal_error: panic with a new UnmarshalError
unmarshal_error(d, n, t, message) ==
    [d EXCEPT !.nobj = @ + 1,
              !.exc = NewUnmarshalError(d.nobj + 1, n, t, Format(message))]

\* a panic of package reflect
reflect_panic(d) == [d EXCEPT !.exc = [panic |-> "reflect"]]

alloc(d, cell) == [d EXCEPT !.h = Append(@, cell)]

\* strconv.ParseInt(s, 10, 64) and strconv.ParseUint(s, 10, 64); a numeral
\* of more than 9 digits is out of the range of the model
IsDigits(s) == s # <<>> /\ \A i \in 1..Len(s) : s[i] >= 48 /\ s[i] <= 57

RECURSIVE DigitsValue(_, _)
DigitsValue(s, acc) ==
    IF s = <<>> THEN acc ELSE DigitsValue(Tail(s), acc * 10 + (Head(s) - 48))

ParseUint(s) ==
    IF ~IsDigits(s) \/ Len(s) > 9 THEN [ok |-> FALSE, num |-> 0]
    ELSE [ok |-> TRUE, num |-> DigitsValue(s, 0)]

ParseInt(s) ==
    IF s # <<>> /\ Head(s) \in {43, 45}
    THEN LET u == ParseUint(Tail(s))
         IN  [ok |-> u.ok, num |-> IF Head(s) = 45 THEN 0 - u.num ELSE u.num]
    ELSE ParseUint(s)

OverflowInt_never(bits, x) == FALSE

\* reflect.Value.OverflowInt and OverflowUint for a type of the given width
OverflowInt(bits, x) ==
    bits < 32 /\ (x < 0 - 2 ^ (bits - 1) \/ x > 2 ^ (bits - 1) - 1)

OverflowUint(bits, x) == bits < 32 /\ x > 2 ^ bits - 1

\* strings.EqualFold, on ASCII
Lower(b) == IF b >= 65 /\ b <= 90 THEN b + 32 ELSE b

EqualFold(s, t) == Len(s) = Len(t) /\ \A i \in 1..Len(s) : Lower(s[i]) = Lower(t[i])

\* the error of IterKeyValues at child c (Nil: c is a key/value pair)
kv_error(c) ==
    IF ~IsList(c)
    THEN NewError(c.Location, "node is not a list, expected key/value pair", 0)
    ELSE IF NumChildren(c) < 2
    THEN NewError(c.Location, "cannot retrieve 2nd child node", NumChildren(c))
    ELSE Nil

RECURSIVE iter_key_values(_)
\* IterKeyValues with a callback that returns nil: its result on children cs
iter_key_values(cs) ==
    IF cs = <<>> THEN Nil
    ELSE IF kv_error(Head(cs)) # Nil THEN kv_error(Head(cs))
    ELSE iter_key_values(Tail(cs))

IterKeyValues(n) == iter_key_values(n.Children)

RECURSIVE unmarshal_as_interface(_)
unmarshal_as_interface(n) ==
    IF IsList(n)
    THEN [list |-> <<>> \o [i \in 1..Len(n.Children) |->
                               unmarshal_as_interface(n.Children[i])]]
    ELSE [str |-> n.Value]

\* The UnmarshalSexp methods of the tests (smiley, neversmiley, neversmiley2)
\* and one that returns errors.New("m%"): the receiver's new value and the
\* error returned.  t is the receiver's type, obj a fresh error object.
UnmarshalSexp(impl, n, t, recv, obj) ==
    CASE impl = "smiley" ->
            IF ~IsScalar(n)
            THEN [recv |-> recv,
                  ret |-> NewUnmarshalError(obj, n, t, Text("scalar value required"))]
            ELSE [recv |-> n.Value \o <<32, 58, 45, 68>>, ret |-> Nil]
      [] impl = "neversmiley" ->
            [recv |-> recv, ret |-> NewUnmarshalError(obj, n, t, Text(":-( Y U NO HAPPY?"))]
      [] impl = "neversmiley2" ->
            [recv |-> recv, ret |-> ErrorString(obj, Text("inevitable failure"))]
      [] OTHER ->
            [recv |-> recv, ret |-> ErrorString(obj, [bytes |-> <<109, 37>>])]

unmarshaler_result_verbatim(d, n, t, ret) == IF ret = Nil THEN d ELSE [d EXCEPT !.exc = ret]

\* what unmarshal_unmarshaler does with the error the override returned
unmarshaler_result(d, n, t, ret) ==
    IF ret = Nil THEN d
    ELSE IF ret.kind = "UnmarshalError" THEN [d EXCEPT !.exc = ret]
    ELSE unmarshal_error(d, n, t, ret.message)

\* unmarshal_unmarshaler on the value v of type vt: [handled, v, d]
unmarshal_unmarshaler(n, vt, v, d) ==
    LET direct == vt.k = "ptr" /\ vt.elem.um # ""
        viaaddr == vt.k # "ptr" /\ vt.um # ""
        call(impl, t, recv) == UnmarshalSexp(impl, n, t, recv, d.nobj + 1)
        log(x, c) == [x EXCEPT !.nobj = @ + 1,
                               !.calls = Append(@, [node |-> n, ret |-> c.ret])]
    IN  IF direct /\ v.ptr # 0
        THEN LET c == call(vt.elem.um, vt, d.h[v.ptr])
                 d1 == log([d EXCEPT !.h[v.ptr] = c.recv], c)
             IN  [handled |-> TRUE, v |-> v, d |-> unmarshaler_result(d1, n, vt, c.ret)]
        ELSE IF viaaddr
        THEN LET c == call(vt.um, PtrTo(vt), v)
             IN  [handled |-> TRUE, v |-> c.recv,
                  d |-> unmarshaler_result(log(d, c), n, PtrTo(vt), c.ret)]
        ELSE [handled |-> FALSE, v |-> v, d |-> d]

\* reflect.Append of one element to the slice v
slice_append(v, x, d) ==
    IF v.len < v.cap
    THEN [v |-> [v EXCEPT !.len = @ + 1], d |-> [d EXCEPT !.h[v.arr][v.len + 1] = x]]
    ELSE LET cap == IF v.cap = 0 THEN 1 ELSE 2 * v.cap
             old == IF v.arr = 0 THEN <<>> ELSE SubSeq(d.h[v.arr], 1, v.len)
             cell == old \o [i \in 1..(cap - v.len) |-> x]
         IN  [v |-> [arr |-> Len(d.h) + 1, len |-> v.len + 1, cap |-> cap],
              d |-> alloc(d, cell)]

SetLen_skipped(v, n) == v

\* v.SetLen(n)
SetLen(v, n) == [v EXCEPT !.len = n]

\* v.SetMapIndex(key, val) on the entries of a map
map_put(entries, key, val) ==
    IF \E i \in 1..Len(entries) : entries[i].k = key
    THEN <<>> \o [i \in 1..Len(entries) |->
                      IF entries[i].k = key THEN [k |-> key, v |-> val] ELSE entries[i]]
    ELSE Append(entries, [k |-> key, v |-> val])

RECURSIVE find_field(_, _, _)
\* the loop over the fields of a struct: the index of the field found, 0 for none
find_field(fields, key, i) ==
    IF i > Len(fields) THEN 0
    ELSE LET f == fields[i]
         IN  IF f.tag = <<45>> \/ f.anonymous THEN find_field(fields, key, i + 1)
             ELSE IF f.tag = key \/ f.name = key \/ EqualFold(f.name, key) THEN i
             ELSE find_field(fields, key, i + 1)

RECURSIVE unmarshal_value(_, _, _, _)
RECURSIVE unmarshal_kind(_, _, _, _, _)
RECURSIVE unmarshal_seq(_, _, _, _, _, _)
RECURSIVE unmarshal_map(_, _, _, _, _, _, _)
RECURSIVE unmarshal_struct(_, _, _, _, _, _)

\* the loop of the Array/Slice case over the children cs, from index i
unmarshal_seq(cs, t, vt, v, d, i) ==
    LET len == IF vt.k = "array" THEN Len(v) ELSE v.len
    IN  IF cs = <<>> \/ (i >= len /\ vt.k = "array")
        THEN IF i >= len THEN [v |-> v, d |-> d]
             ELSE IF vt.k = "slice" THEN [v |-> SetLen(v, i), d |-> d]
             ELSE IF t.k = "ptr" THEN [v |-> v, d |-> reflect_panic(d)]
             ELSE [v |-> SubSeq(v, 1, i) \o [j \in 1..(Len(v) - i) |-> Zero(vt.elem)],
                   d |-> d]
        ELSE IF i >= len /\ t.k = "ptr" THEN [v |-> v, d |-> reflect_panic(d)]
        ELSE LET g == IF i >= len THEN slice_append(v, Zero(vt.elem), d)
                      ELSE [v |-> v, d |-> d]
                 at == IF vt.k = "array" THEN g.v[i + 1] ELSE g.d.h[g.v.arr][i + 1]
                 r == unmarshal_value(Head(cs), vt.elem, at, g.d)
                 v1 == IF vt.k = "array" THEN [g.v EXCEPT ![i + 1] = r.v] ELSE g.v
                 d1 == IF vt.k = "array" THEN r.d
                       ELSE [r.d EXCEPT !.h[g.v.arr][i + 1] = r.v]
             IN  IF d1.exc # Nil THEN [v |-> v1, d |-> d1]
                 ELSE unmarshal_seq(Tail(cs), t, vt, v1, d1, i + 1)

\* IterKeyValues with the callback of the Map case, over the children cs;
\* keyv and valv are the two values the callback decodes into
unmarshal_map(cs, n, t, v, d, keyv, valv) ==
    IF cs = <<>> THEN [v |-> v, d |-> d]
    ELSE IF kv_error(Head(cs)) # Nil
    THEN [v |-> v, d |-> unmarshal_error(d, n, t, Text(kv_error(Head(cs)).kind))]
    ELSE LET rk == unmarshal_value(Head(cs).Children[1], t.key, keyv, d)
             rv == unmarshal_value(Head(cs).Children[2], t.elem, valv, rk.d)
             d1 == [rv.d EXCEPT !.h[v.map] = map_put(@, rk.v, rv.v)]
         IN  IF rk.d.exc # Nil THEN [v |-> v, d |-> rk.d]
             ELSE IF rv.d.exc # Nil THEN [v |-> v, d |-> rv.d]
             ELSE unmarshal_map(Tail(cs), n, t, v, d1, rk.v, rv.v)

\* IterKeyValues with the callback of the Struct case, over the children cs
unmarshal_struct(cs, n, t, vt, v, d) ==
    IF cs = <<>> THEN [v |-> v, d |-> d]
    ELSE IF kv_error(Head(cs)) # Nil
    THEN [v |-> v, d |-> unmarshal_error(d, n, t, Text(kv_error(Head(cs)).kind))]
    ELSE IF t.k = "ptr" THEN [v |-> v, d |-> reflect_panic(d)]
    ELSE LET fi == find_field(vt.fields, Head(cs).Children[1].Value, 1)
         IN  IF fi = 0 THEN unmarshal_struct(Tail(cs), n, t, vt, v, d)
             ELSE IF ~vt.fields[fi].exported
             THEN [v |-> v,
                   d |-> unmarshal_error(d, n, t, Text("writing to an unexported field"))]
             ELSE LET r == unmarshal_value(Head(cs).Children[2], vt.fields[fi].type,
                                           v[fi], d)
                      v1 == [v EXCEPT ![fi] = r.v]
                  IN  IF r.d.exc # Nil THEN [v |-> v1, d |-> r.d]
                      ELSE unmarshal_struct(Tail(cs), n, t, vt, v1, r.d)

\* unmarshal_value after the pointer has been followed: t is the type the
\* function was entered with, vt the type of v
unmarshal_kind(n, t, vt, v, d) ==
    LET u == unmarshal_unmarshaler(n, vt, v, d)
        fail(msg) == [v |-> v, d |-> unmarshal_error(d, n, t, Text(msg))]
    IN  IF u.handled THEN [v |-> u.v, d |-> u.d]
        ELSE CASE vt.k = "int" ->
                    IF ~IsScalar(n) THEN fail("scalar value required")
                    ELSE IF ~ParseInt(n.Value).ok THEN fail("strconv.ParseInt")
                    ELSE IF OverflowInt(vt.bits, ParseInt(n.Value).num)
                    THEN fail("integer overflow")
                    ELSE [v |-> ParseInt(n.Value).num, d |-> d]
               [] vt.k = "uint" ->
                    IF ~IsScalar(n) THEN fail("scalar value required")
                    ELSE IF ~ParseUint(n.Value).ok THEN fail("strconv.ParseUint")
                    ELSE IF OverflowUint(vt.bits, ParseUint(n.Value).num)
                    THEN fail("integer overflow")
                    ELSE [v |-> ParseUint(n.Value).num, d |-> d]
               [] vt.k = "bool" ->
                    IF ~IsScalar(n) THEN fail("scalar value required")
                    ELSE IF n.Value = <<116, 114, 117, 101>> THEN [v |-> TRUE, d |-> d]
                    ELSE IF n.Value = <<102, 97, 108, 115, 101>> THEN [v |-> FALSE, d |-> d]
                    ELSE fail("undefined boolean value, use true|false")
               [] vt.k = "string" ->
                    IF ~IsScalar(n) THEN fail("scalar value required")
                    ELSE [v |-> n.Value, d |-> d]
               [] vt.k \in {"array", "slice"} ->
                    IF ~IsList(n) THEN fail("list value required")
                    ELSE unmarshal_seq(n.Children, t, vt, v, d, 0)
               [] vt.k = "interface" ->
                    IF vt.nmeth # 0 THEN fail("unsupported type")
                    ELSE [v |-> unmarshal_as_interface(n), d |-> d]
               [] vt.k = "map" ->
                    IF ~IsList(n) THEN fail("list value required")
                    ELSE IF t.k = "ptr" THEN [v |-> v, d |-> reflect_panic(d)]
                    ELSE LET d1 == IF v.map = 0 THEN alloc(d, <<>>) ELSE d
                             v1 == IF v.map = 0 THEN [map |-> Len(d1.h)] ELSE v
                         IN  unmarshal_map(n.Children, n, t, v1, d1,
                                           Zero(t.key), Zero(t.elem))
               [] vt.k = "struct" -> unmarshal_struct(n.Children, n, t, vt, v, d)
               [] OTHER -> fail("unsupported type")

unmarshal_value(n, t, v, d) ==
    IF t.k = "ptr"
    THEN LET d1 == IF v.ptr = 0 THEN alloc(d, Zero(t.elem)) ELSE d
             v1 == IF v.ptr = 0 THEN [ptr |-> Len(d1.h)] ELSE v
             r == unmarshal_kind(n, t, t.elem, d1.h[v1.ptr], d1)
         IN  [v |-> v1, d |-> [r.d EXCEPT !.h[v1.ptr] = r.v]]
    ELSE unmarshal_kind(n, t, t, v, d)

\* the deferred function of unmarshal, on the result r of unmarshal_value: a
\* panic with an *UnmarshalError becomes the error returned, any other panic
\* stays in d.exc
recovered(r) ==
    IF r.d.exc # Nil /\ "kind" \in DOMAIN r.d.exc /\ r.d.exc.kind = "UnmarshalError"
    THEN [v |-> r.v, err |-> r.d.exc, d |-> [r.d EXCEPT !.exc = Nil]]
    ELSE [v |-> r.v, err |-> Nil, d |-> r.d]

\* n.unmarshal(vals[i]): the argument is a pointer to the variable x
\* ("ptr"), a value that is no pointer ("value") or a nil pointer
\* ("nilptr"): [v, d, err]
unmarshal(n, mode, x, d) ==
    IF mode # "ptr"
    THEN [v |-> x.v, err |-> Nil,
          d |-> [d EXCEPT !.exc = [panic |-> "Node.Unmarshal expects a non-nil pointer argument"]]]
    ELSE recovered(unmarshal_value(n, x.t, x.v, d))

\* the error for targets left without a node
Shortfall(d, n, what, have, want) ==
    [obj |-> d.nobj + 1, kind |-> "UnmarshalError", Type |-> Nil, Node |-> n,
     message |-> [text |-> what, have |-> have, want |-> want]]

RECURSIVE unmarshal_nodes(_, _, _, _, _)
RECURSIVE unmarshal_next(_, _, _, _, _)

\* the loop of Unmarshal and UnmarshalChildren after target i was decoded
\* with result r: an error is returned, otherwise the loop goes on
unmarshal_next(cs, args, xs, r, i) ==
    IF r.err # Nil \/ r.d.exc # Nil
    THEN [xs |-> [xs EXCEPT ![i + 1].v = r.v], d |-> r.d, err |-> r.err, i |-> i]
    ELSE unmarshal_nodes(Tail(cs), args, [xs EXCEPT ![i + 1].v = r.v], r.d, i + 1)

\* the loop of Unmarshal and UnmarshalChildren over the nodes cs, from target
\* i (counted from 0): [xs, d, err, i]
unmarshal_nodes(cs, args, xs, d, i) ==
    IF cs = <<>> \/ i >= Len(args) THEN [xs |-> xs, d |-> d, err |-> Nil, i |-> i]
    ELSE IF args[i + 1] = "nil" THEN unmarshal_nodes(Tail(cs), args, xs, d, i + 1)
    ELSE unmarshal_next(cs, args, xs, unmarshal(Head(cs), args[i + 1], xs[i + 1], d), i)

Outcome_no_shortfall(r, n, what, base, args) == [xs |-> r.xs, d |-> r.d, err |-> r.err]

\* what a call leaves: the variables, the decode state and the error returned
Outcome(r, n, what, base, args) ==
    IF r.err # Nil \/ r.d.exc # Nil \/ r.i >= Len(args)
    THEN [xs |-> r.xs, d |-> r.d, err |-> r.err]
    ELSE [xs |-> r.xs, d |-> [r.d EXCEPT !.nobj = @ + 1],
          err |-> Shortfall(r.d, n, what, r.i - base, Len(args) - base)]

UnmarshalChildren(n, args, xs, d) ==
    IF args = <<>> THEN [xs |-> xs, d |-> d, err |-> Nil]
    ELSE Outcome(unmarshal_nodes(n.Children, args, xs, d, 0), n, "children", 0, args)

\* Unmarshal after the node itself was decoded with result first: its
\* siblings sibs are decoded
unmarshal_siblings(first, n, sibs, args) ==
    IF first.err # Nil \/ first.d.exc # Nil
    THEN [xs |-> first.xs, d |-> first.d, err |-> first.err]
    ELSE Outcome(unmarshal_nodes(sibs, args, first.xs, first.d, 1), n, "siblings", 1, args)

\* Unmarshal on the node n, whose Next chain is sibs
Unmarshal(n, sibs, args, xs, d) ==
    IF args = <<>> THEN [xs |-> xs, d |-> d, err |-> Nil]
    ELSE unmarshal_siblings(unmarshal_nodes(<<n>>, args, xs, d, 0), n, sibs, args)

(***************************************************************************)
(* The decoder's callers: a text is parsed, then one of Unmarshal,         *)
(* UnmarshalChildren and IterKeyValues is called on a node of the tree,    *)
(* with pointers to variables that hold earlier values.                    *)
(***************************************************************************)
MaxPrior == 2    \* capacity of a slice a variable holds before the decode
MaxArgs == 2     \* arguments of one Unmarshal or UnmarshalChildren call

String == [BaseT EXCEPT !.k = "string"]
Int8 == [BaseT EXCEPT !.k = "int", !.bits = 8]
Uint8 == [BaseT EXCEPT !.k = "uint", !.bits = 8]
Bool == [BaseT EXCEPT !.k = "bool"]
Chan == [BaseT EXCEPT !.k = "chan"]
Interface == [BaseT EXCEPT !.k = "interface"]
Stringer == [BaseT EXCEPT !.k = "interface", !.nmeth = 1]
SliceOf(e) == [BaseT EXCEPT !.k = "slice", !.elem = e]
ArrayOf(n, e) == [BaseT EXCEPT !.k = "array", !.n = n, !.elem = e]
MapOf(k, e) == [BaseT EXCEPT !.k = "map", !.key = k, !.elem = e]
StructOf(fields) == [BaseT EXCEPT !.k = "struct", !.fields = fields]
Field(name, tag, type) ==
    [name |-> name, tag |-> tag, anonymous |-> FALSE, exported |-> TRUE, type |-> type]

\* the types of the tests whose pointers implement Unmarshaler, and Percent
\* whose UnmarshalSexp returns errors.New("m%")
Smiley == [String EXCEPT !.um = "smiley"]
NeverSmiley == [String EXCEPT !.um = "neversmiley"]
NeverSmiley2 == [String EXCEPT !.um = "neversmiley2"]
Percent == [String EXCEPT !.um = "percent"]

\* struct { A string; B string `sexp:"a"` }
Shadowed == StructOf(<<Field(<<65>>, <<>>, String), Field(<<66>>, <<97>>, String)>>)

\* struct { A string `sexp:"-"`; b string; C []string }
Hidden ==
    StructOf(<<Field(<<65>>, <<45>>, String),
               [Field(<<98>>, <<>>, String) EXCEPT !.exported = FALSE],
               Field(<<67>>, <<>>, SliceOf(String))>>)

DecodeTypes ==
    {String, Int8, Uint8, Bool, Chan, Interface, Stringer,
     SliceOf(String), ArrayOf(2, String), SliceOf(Smiley),
     MapOf(String, String), MapOf(String, SliceOf(String)), MapOf(String, PtrTo(String)),
     MapOf(String, Shadowed), Shadowed, Hidden,
     PtrTo(String), PtrTo(SliceOf(String)), PtrTo(Shadowed), PtrTo(MapOf(String, String)),
     Smiley, NeverSmiley, NeverSmiley2, Percent, PtrTo(Smiley)}

Z == <<122>>

\* the values a variable of type t can hold before the decode, each with the
\* heap it refers to
Priors(t) ==
    {[v |-> Zero(t), h |-> <<>>]} \cup
    CASE t.k = "string" -> {[v |-> Z, h |-> <<>>]}
      [] t.k \in {"int", "uint"} -> {[v |-> 7, h |-> <<>>]}
      [] t.k = "array" -> {[v |-> <<>> \o [i \in 1..t.n |-> Z], h |-> <<>>]}
      [] t.k = "slice" /\ t.elem = String ->
            {[v |-> [arr |-> 1, len |-> l, cap |-> c], h |-> <<<<>> \o [i \in 1..c |-> Z]>>] :
                 l \in 0..MaxPrior, c \in 1..MaxPrior} \ 
            {[v |-> [arr |-> 1, len |-> l, cap |-> c], h |-> <<<<>> \o [i \in 1..c |-> Z]>>] :
                 l \in 2..MaxPrior, c \in 1..(MaxPrior - 1)}
      [] t.k = "map" /\ t.elem = String ->
            {[v |-> [map |-> 1], h |-> <<<<[k |-> Z, v |-> Z]>>>>]}
      [] t.k = "ptr" /\ t.elem = String -> {[v |-> [ptr |-> 1], h |-> <<Z>>]}
      [] t = Shadowed -> {[v |-> <<Z, Z>>, h |-> <<>>]}
      [] OTHER -> {}

\* the variables of a call: one of any type, and up to MaxArgs - 1 strings
RECURSIVE Strings(_)
Strings(n) ==
    IF n = 0 THEN {<<>>}
    ELSE Strings(n - 1) \cup
         {Append(q, [t |-> String, v |-> v]) : q \in Strings(n - 1), v \in {<<>>, Z}}

\* the texts decoded
DecodeTexts ==
    {<<97>>,                                                \* a
     <<40, 41>>,                                            \* ()
     <<40, 97, 32, 98, 41>>,                                \* (a b)
     <<97, 32, 98>>,                                        \* a b
     <<40, 97, 41>>,                                        \* (a)
     <<40, 97, 32, 40, 41, 41>>,                            \* (a ())
     <<40, 97, 32, 40, 49, 32, 50, 41, 41, 32, 40, 98, 32, 40, 51, 41, 41>>,
                                                            \* (a (1 2)) (b (3))
     <<40, 65, 32, 98, 41, 32, 40, 97, 32, 99, 41>>,        \* (A b) (a c)
     <<40, 98, 32, 99, 41, 32, 40, 99, 32, 40, 100, 41, 41>>,   \* (b c) (c (d))
     <<49, 32, 51, 48, 48>>,                                \* 1 300
     <<45, 49, 32, 116, 114, 117, 101>>,                    \* -1 true
     <<40, 34, 92, 120, 52, 49, 34, 32, 96, 98, 96, 59, 99, 10, 41>>,
                                                            \* ("\x41" `b`;c<NL>)
     <<97, 0, 98>>,                                         \* a<NUL>b
     <<40, 40, 41, 32, 99, 41, 32, 40, 100, 32, 101, 41>>,  \* (() c) (d e)
     <<49, 50, 55, 32, 49, 50, 56, 32, 45, 49, 50, 56, 32, 50, 53, 53, 32, 50, 53, 54,
       32, 43, 49, 32, 45, 48, 32, 48, 55>>}         \* 127 128 -128 255 256 +1 -0 07

RECURSIVE Receivers(_)
\* the nodes a call can be made on: [node, sibs], sibs being its Next chain
Receivers(n) ==
    UNION {{[node |-> n.Children[i], sibs |-> SubSeq(n.Children, i + 1, Len(n.Children))]}
           \cup Receivers(n.Children[i]) : i \in 1..Len(n.Children)}

RECURSIVE ArgLists(_)
\* the arguments of a call, one per variable: a pointer to it ("ptr"), nil,
\* its value ("value") or a nil pointer of its type ("nilptr")
ArgLists(n) ==
    IF n = 0 THEN {<<>>}
    ELSE ArgLists(n - 1) \cup
         {Append(a, m) : a \in {b \in ArgLists(n - 1) : Len(b) = n - 1},
                         m \in {"ptr", "nil", "value", "nilptr"}}

InitDecode ==
    /\ ctx = [files |-> <<>>]
    /\ p = IdleParser
    /\ \E text \in DecodeTexts : todo = <<[data |-> text, fail |-> FALSE, length |-> -1]>>
    /\ rets = <<>>
    /\ targets = <<>>
    /\ heap = <<>>
    /\ last = Nil
    /\ waiting = <<>>

NewDecode(h) == [h |-> h, exc |-> Nil, calls |-> <<>>, nobj |-> 0]

\* a call returns: the variables and the heap are what it left, last records
\* the call, the variables and the heap before it, and its result
Called(entry, r, args, before, h, out) ==
    /\ targets' = out.xs
    /\ heap' = out.d.h
    /\ last' = [entry |-> entry, node |-> r.node, sibs |-> r.sibs, args |-> args,
                before |-> before, heap |-> h, err |-> out.err, panic |-> out.d.exc,
                calls |-> out.d.calls]
    /\ UNCHANGED <<pvars, waiting>>

\* the tree Parse returned is decoded once
CanDecode == p.pc = "done" /\ p.root # Nil /\ last = Nil

UnmarshalCall ==
    /\ CanDecode
    /\ \E t \in DecodeTypes : \E pr \in Priors(t), rest \in Strings(MaxArgs - 1) :
          LET xs == <<[t |-> t, v |-> pr.v]>> \o rest
          IN  \E r \in {[node |-> p.root, sibs |-> <<>>]} \cup Receivers(p.root),
                 args \in ArgLists(Len(xs)) :
                 Called("Unmarshal", r, args, xs, pr.h,
                        Unmarshal(r.node, r.sibs, args, xs, NewDecode(pr.h)))

UnmarshalChildrenCall ==
    /\ CanDecode
    /\ \E t \in DecodeTypes : \E pr \in Priors(t), rest \in Strings(MaxArgs - 1) :
          LET xs == <<[t |-> t, v |-> pr.v]>> \o rest
          IN  \E r \in {[node |-> p.root, sibs |-> <<>>]} \cup Receivers(p.root),
                 args \in ArgLists(Len(xs)) :
                 Called("UnmarshalChildren", r, args, xs, pr.h,
                        UnmarshalChildren(r.node, args, xs, NewDecode(pr.h)))

\* IterKeyValues with a callback that returns nil
IterKeyValuesCall ==
    /\ CanDecode
    /\ \E r \in {[node |-> p.root, sibs |-> <<>>]} \cup Receivers(p.root) :
          Called("IterKeyValues", r, <<>>, <<>>, <<>>,
                 [xs |-> <<>>, d |-> NewDecode(<<>>), err |-> IterKeyValues(r.node)])

NextDecode ==
    \/ StartParse
    \/ SkipSpaces
    \/ ParseListClose
    \/ ParseNodeNil
    \/ ParseListOpen
    \/ ParseStringOpen
    \/ ParseRawStringOpen
    \/ ParseNodeComment
    \/ ParseNodeEOF
    \/ ParseIdentOpen
    \/ SkipComment
    \/ ParseString
    \/ ParseEscSeq
    \/ NextHex
    \/ ParseRawString
    \/ ParseIdent
    \/ Recover
    \/ UnmarshalCall
    \/ UnmarshalChildrenCall
    \/ IterKeyValuesCall

SpecDecode == InitDecode /\ [][NextDecode]_vars

(***************************************************************************)
(* The callers of location.go: files are registered in one SourceContext,  *)
(* a file of unknown length is finalized, line markers are added in the    *)
(* order a reader meets the newlines, and locations are decoded.  last     *)
(* records the call made and which files were finalized after they were    *)
(* registered.                                                             *)
(***************************************************************************)
MaxCtxFiles == 3    \* files registered in the context
MaxOffset == 3      \* length of a file, offset of a line marker
MaxLines == 3       \* line markers of a file

InitContext ==
    /\ ctx = [files |-> <<>>]
    /\ p = IdleParser
    /\ todo = <<>>
    /\ rets = <<>>
    /\ targets = <<>>
    /\ heap = <<>>
    /\ last = Nil
    /\ waiting = <<>>

Finalized == IF last = Nil THEN {} ELSE last.finalized

\* s.AddFile(name, length): it panics or appends the file
ContextAddFile ==
    /\ Len(ctx.files) < MaxCtxFiles
    /\ \E length \in -1..MaxOffset :
          /\ ctx' = IF AddFilePanics(ctx) THEN ctx
                    ELSE AddFile(ctx, Len(ctx.files) + 1, length)
          /\ last' = [op |-> "AddFile", before |-> ctx, length |-> length,
                      panic |-> AddFilePanics(ctx), finalized |-> Finalized]
    /\ UNCHANGED <<p, todo, rets, targets, heap, waiting>>

\* f.Finalize(len) on the file whose length is unknown, once its end is
\* reached
ContextFinalize ==
    /\ \E i \in 1..Len(ctx.files), len \in 0..MaxOffset :
          /\ ctx.files[i].length = -1
          /\ len >= last_line(ctx.files[i]).offset
          /\ ctx' = [ctx EXCEPT !.files[i] = Finalize(@, len)]
          /\ last' = [op |-> "Finalize", finalized |-> Finalized \cup {i}]
    /\ UNCHANGED <<p, todo, rets, targets, heap, waiting>>

\* f.AddLine(offset) for a newline that ends at offset
ContextAddLine ==
    /\ \E i \in 1..Len(ctx.files), offset \in 1..MaxOffset :
          /\ Len(ctx.files[i].lines) < MaxLines
          /\ offset > last_line(ctx.files[i]).offset
          /\ ctx.files[i].length = -1 \/ offset <= ctx.files[i].length
          /\ ctx' = [ctx EXCEPT !.files[i] = AddLine(@, offset)]
          /\ last' = [op |-> "AddLine", finalized |-> Finalized]
    /\ UNCHANGED <<p, todo, rets, targets, heap, waiting>>

\* s.Decode(loc) once every file has its length
ContextDecode ==
    /\ ctx.files # <<>>
    /\ \A i \in 1..Len(ctx.files) : ctx.files[i].length # -1
    /\ \E loc \in 0..(MaxCtxFiles * MaxOffset) :
          last' = [op |-> "Decode", loc |-> loc, result |-> Decode(ctx, loc),
                   finalized |-> Finalized]
    /\ UNCHANGED <<ctx, p, todo, rets, targets, heap, waiting>>

NextContext ==
    \/ ContextAddFile
    \/ ContextFinalize
    \/ ContextAddLine
    \/ ContextDecode

SpecContext == InitContext /\ [][NextContext]_vars

(***************************************************************************)
(* Properties of the parser.                                               *)
(***************************************************************************)
RECURSIVE Nodes(_)
\* the nodes of the tree below n
Nodes(n) == UNION {{c} \cup Nodes(c) : c \in {n.Children[i] : i \in 1..Len(n.Children)}}

RECURSIVE RuneAt(_, _)
\* the rune of data that starts at byte offset off (-1: none)
RuneAt(data, off) ==
    IF data = <<>> \/ off < 0 THEN -1
    ELSE IF off = 0 THEN Head(data)
    ELSE RuneAt(Tail(data), off - RuneLen(Head(data)))

\* the file the parser reads, and the result of the parse
File == ctx.files[p.f]
Returned == p.pc = "done"
Failure == IF Returned THEN p.err ELSE p.exc

\* The constructs a text leaves open, by the grammar: a scan of the text that
\* keeps the (byte offset, opening rune) of every '(' not yet closed, and of
\* the '"' or '`' string the text ends in.  mode is "node" between nodes,
\* "atom", "string", "esc" (after a backslash in a string), "raw", "comment".
RECURSIVE OpenScan(_, _, _, _)
OpenScan(data, off, mode, open) ==
    IF data = <<>> THEN open
    ELSE LET r == Head(data)
             rest == Tail(data)
             o == off + RuneLen(r)
             here == [offset |-> off, rune |-> r]
             pop == SubSeq(open, 1, Len(open) - 1)
         IN  CASE mode = "string" ->
                    IF r = DQuote THEN OpenScan(rest, o, "node", pop)
                    ELSE IF r = Backslash THEN OpenScan(rest, o, "esc", open)
                    ELSE OpenScan(rest, o, "string", open)
               [] mode = "esc" -> OpenScan(rest, o, "string", open)
               [] mode = "raw" ->
                    IF r = BQuote THEN OpenScan(rest, o, "node", pop)
                    ELSE OpenScan(rest, o, "raw", open)
               [] mode = "comment" ->
                    OpenScan(rest, o, IF r = NL THEN "node" ELSE "comment", open)
               [] mode = "atom" /\ ~is_delimiter(r) -> OpenScan(rest, o, "atom", open)
               [] OTHER ->
                    IF is_space(r) THEN OpenScan(rest, o, "node", open)
                    ELSE IF r = RParen
                    THEN OpenScan(rest, o, "node", IF open = <<>> THEN open ELSE pop)
                    ELSE IF r = Semi THEN OpenScan(rest, o, "comment", open)
                    ELSE IF r = LParen THEN OpenScan(rest, o, "node", Append(open, here))
                    ELSE IF r = DQuote THEN OpenScan(rest, o, "string", Append(open, here))
                    ELSE IF r = BQuote THEN OpenScan(rest, o, "raw", Append(open, here))
                    ELSE OpenScan(rest, o, "atom", open)

OpenAtEnd == OpenScan(p.r.data, 0, "node", <<>>)

\* C1: every Parse call returns, and it returns either a root and no error
\* or an error and no root, never both and never neither.
C1_RootOrError ==
    /\ p.pc # "crashed"
    /\ \A i \in 1..Len(rets) :
          \/ rets[i].root # Nil /\ rets[i].err = Nil
          \/ rets[i].root = Nil /\ rets[i].err # Nil

\* C1's case: a read failure after a node had been linked to the root
C1_Witness ==
    /\ Returned
    /\ p.r.data = <<LowerA, Space>>
    /\ p.r.fail
    /\ rets = <<[f |-> p.f, root |-> Nil, err |-> NewError(File.offset + 2, "read", 0)]>>

ListNodes ==
    {n \in Nodes(p.root) : RuneAt(p.r.data, n.Location - File.offset) = LParen}

\* C3 as stated: every node produced from a '(' ... ')' construct is a list
\* for IsList, whatever its number of children.
C3_ListIsList ==
    (Returned /\ p.root # Nil) => \A n \in ListNodes : IsList(n)

\* C3 as amended: "()" parses to a root with exactly one child, which has no
\* children and an empty Value and is a scalar for IsList/IsScalar; a node
\* produced from '(' ... ')' has an empty Value and holds, in order, the
\* nodes parsed between its parentheses.
C3_EmptyListIsScalar ==
    (Returned /\ p.root # Nil) =>
        /\ p.r.data = <<LParen, RParen>> =>
              /\ p.root.Children = <<NewNode(File.offset, <<>>, <<>>)>>
              /\ IsScalar(p.root.Children[1])
              /\ ~IsList(p.root.Children[1])
        /\ \A n \in ListNodes :
              /\ n.Value = <<>>
              /\ \A i \in 1..Len(n.Children) :
                    /\ n.Children[i].Location > n.Location
                    /\ i > 1 => n.Children[i].Location > n.Children[i - 1].Location
        /\ p.r.data = <<LParen, LowerA, RParen>> =>
              p.root.Children = <<NewNode(File.offset, <<>>,
                                          <<NewNode(File.offset + 1, <<LowerA>>, <<>>)>>)>>

C3_Witness ==
    /\ Returned
    /\ p.r.data = <<LParen, RParen>>
    /\ p.root # Nil
    /\ Len(p.root.Children) = 1
    /\ ~IsList(p.root.Children[1])

\* C7 as stated: Decode of the Location of every error Parse has returned
\* names the file that was being parsed, and the offset in it, whatever
\* files were registered since.
C7_ErrorDecodesToItsFile ==
    \A i \in 1..Len(rets) :
        rets[i].err # Nil =>
            LET d == Decode(ctx, rets[i].err.Location)
                f == ctx.files[rets[i].f]
            IN  /\ d.Filename = f.name
                /\ d.Offset = rets[i].err.Location - f.offset

(***************************************************************************)
(* Properties of the decoder.                                              *)
(***************************************************************************)
Decoded == last # Nil

\* Unmarshal was called with a pointer to the first variable and nothing else
OnePtr == Decoded /\ last.entry = "Unmarshal" /\ last.args = <<"ptr">>

T1 == targets[1].t
V1 == targets[1].v
Succeeded == last.err = Nil /\ last.panic = Nil
UsageMessage == "Node.Unmarshal expects a non-nil pointer argument"

\* the node was written with parentheses in the text
WrittenAsList(n) == n # p.root /\ RuneAt(p.r.data, n.Location - File.offset) = LParen

RECURSIVE Contents(_, _, _)
\* the value v of type t with what it refers to in h in place of the references
Contents(t, v, h) ==
    CASE t.k = "slice" -> [i \in 1..v.len |-> Contents(t.elem, h[v.arr][i], h)]
      [] t.k = "array" -> [i \in 1..t.n |-> Contents(t.elem, v[i], h)]
      [] t.k = "struct" -> [i \in 1..Len(t.fields) |-> Contents(t.fields[i].type, v[i], h)]
      [] t.k = "ptr" -> IF v.ptr = 0 THEN Nil ELSE [at |-> Contents(t.elem, h[v.ptr], h)]
      [] t.k = "map" ->
            IF v.map = 0 THEN Nil
            ELSE [i \in 1..Len(h[v.map]) |->
                     [k |-> Contents(t.key, h[v.map][i].k, h),
                      v |-> Contents(t.elem, h[v.map][i].v, h)]]
      [] OTHER -> v

\* the node n decoded on its own into a fresh zero value of type t
Fresh(n, t) ==
    unmarshal_value(n, t, Zero(t), NewDecode(<<>>))

FreshContents(n, t) == Contents(t, Fresh(n, t).v, Fresh(n, t).d.h)

Pairs == last.node.Children
KeyOf(i) == Pairs[i].Children[1].Value
LastWithKey(i) == \A j \in (i + 1)..Len(Pairs) : KeyOf(j) # KeyOf(i)

\* C4 as stated: when a list of pairs is decoded into a record, the value
\* of a pair goes to the field whose sexp tag equals the pair's key, whatever
\* other field matches the key by name or case-insensitively and whatever
\* the order of the fields.
C4_TagHasPriority ==
    (OnePtr /\ Succeeded /\ T1.k = "struct") =>
        \A i \in 1..Len(Pairs) : \A f \in 1..Len(T1.fields) :
            (/\ T1.fields[f].tag = KeyOf(i)
             /\ T1.fields[f].tag \notin {<<>>, <<45>>}
             /\ T1.fields[f].type = String
             /\ IsScalar(Pairs[i].Children[2])
             /\ \A j \in (i + 1)..Len(Pairs) : ~EqualFold(KeyOf(j), KeyOf(i)))
            => V1[f] = Pairs[i].Children[2].Value

\* C5 as stated: after a list of pairs is decoded into a map, the value
\* under each key is what the value node of the last pair with that key
\* decodes to on its own; a later pair changes no value stored under
\* another key.
C5_MapKeepsEachValue ==
    (OnePtr /\ Succeeded /\ T1.k = "map" /\ T1.key = String) =>
        \A i \in 1..Len(Pairs) :
            LastWithKey(i) =>
                \E e \in 1..Len(heap[V1.map]) :
                    /\ heap[V1.map][e].k = KeyOf(i)
                    /\ Contents(T1.elem, heap[V1.map][e].v, heap)
                           = FreshContents(Pairs[i].Children[2], T1.elem)

\* C6 as stated: a scalar node decoded into a record, and IterKeyValues
\* called on a scalar node, fail with an error; they never succeed as a
\* no-op.
C6_ScalarIntoRecordFails ==
    (/\ Decoded
     /\ IsScalar(last.node)
     /\ \/ last.entry = "IterKeyValues"
        \/ OnePtr /\ T1.k = "struct")
    => last.err # Nil

\* C8 as stated: a call of Unmarshal or UnmarshalChildren with an argument
\* that is not a non-nil pointer panics with the usage message, at whatever
\* position the argument stands and whatever the nodes hold.
C8_MisuseAlwaysPanics ==
    (Decoded /\ \E i \in 1..Len(last.args) : last.args[i] \in {"value", "nilptr"})
    => last.panic = [panic |-> UsageMessage]

ElementsDecode(n, t) ==
    \A i \in 1..Len(n.Children) : Fresh(n.Children[i], t).d.exc = Nil

SliceHoldsChildren ==
    /\ Succeeded
    /\ V1.len = Len(last.node.Children)
    /\ \A i \in 1..V1.len :
          Contents(T1.elem, heap[V1.arr][i], heap)
              = FreshContents(last.node.Children[i], T1.elem)

\* C9 as stated: decoding a list with c children into a slice succeeds and
\* leaves exactly c elements, element i being the decode of child i,
\* whatever the prior length; also for the list written "()".
C9_SliceTakesEveryList ==
    (/\ OnePtr
     /\ T1.k = "slice"
     /\ WrittenAsList(last.node) \/ last.node = p.root
     /\ ElementsDecode(last.node, T1.elem))
    => SliceHoldsChildren

\* C9, amended: the same for a list with at least one child; the node
\* written "()" has no children, is no list for the decoder, and decoding
\* it into a slice returns the "list value required" error and leaves the
\* slice as it was.
C9_SliceTakesNonEmptyList ==
    /\ (/\ OnePtr
        /\ T1.k = "slice"
        /\ IsList(last.node)
        /\ ElementsDecode(last.node, T1.elem))
       => SliceHoldsChildren
    /\ (/\ OnePtr
        /\ T1.k = "slice"
        /\ ~IsList(last.node))
       => /\ last.err = NewUnmarshalError(1, last.node, T1, Text("list value required"))
          /\ last.panic = Nil
          /\ targets = last.before

C9_Witness ==
    /\ OnePtr
    /\ T1 = SliceOf(String)
    /\ last.before[1].v.len = 2
    /\ Len(last.node.Children) = 1
    /\ Succeeded
    /\ V1.len = 1
    /\ heap[V1.arr][1] = last.node.Children[1].Value

Implements(t) == t.um # "" \/ (t.k = "ptr" /\ t.elem.um # "")
Receiver(t) == IF t.k = "ptr" THEN t ELSE PtrTo(t)

Matches(fld, key) ==
    \/ fld.tag # <<>> /\ fld.tag = key
    \/ fld.name = key
    \/ EqualFold(fld.name, key)

ValidPairs == IsList(last.node) /\ \A i \in 1..Len(Pairs) : kv_error(Pairs[i]) = Nil

\* C11 as stated: when a list of pairs is decoded into a record, a pair
\* whose key equals no field's tag, no field's name and no field's name
\* case-insensitively (an empty key included) writes no field and causes no
\* error, and a field no pair matches keeps the value it had before the call.
C11_UnmatchedKeyIgnored ==
    (OnePtr /\ T1.k = "struct" /\ ValidPairs) =>
        /\ \A f \in 1..Len(T1.fields) :
              (\A i \in 1..Len(Pairs) : ~Matches(T1.fields[f], KeyOf(i)))
              => V1[f] = last.before[1].v[f]
        /\ (\A f \in 1..Len(T1.fields) : \A i \in 1..Len(Pairs) :
                ~Matches(T1.fields[f], KeyOf(i)))
           => Succeeded

\* a string of decimal digits and the number it denotes
Decimal(s) == s # <<>> /\ \A i \in 1..Len(s) : s[i] \in 48..57

RECURSIVE DecimalValue(_)
DecimalValue(s) ==
    IF s = <<>> THEN 0
    ELSE 10 * DecimalValue(SubSeq(s, 1, Len(s) - 1)) + (s[Len(s)] - 48)

\* a base-10 numeral: digits, with or without a sign
Numeral(s) == IF s # <<>> /\ s[1] \in {43, 45} THEN Decimal(Tail(s)) ELSE Decimal(s)

NumeralValue(s) ==
    IF s[1] = 45 THEN 0 - DecimalValue(Tail(s))
    ELSE IF s[1] = 43 THEN DecimalValue(Tail(s))
    ELSE DecimalValue(s)

\* the integer k is a value of the integer type t
Representable(t, k) ==
    IF t.k = "int" THEN k >= 0 - 2 ^ (t.bits - 1) /\ k <= 2 ^ (t.bits - 1) - 1
    ELSE k >= 0 /\ k <= 2 ^ t.bits - 1

\* a scalar node was decoded into an integer variable
IntoInteger == OnePtr /\ T1.k \in {"int", "uint"} /\ IsScalar(last.node)

Stored(k) == Succeeded /\ V1 = k
Refused == last.err # Nil /\ last.panic = Nil /\ V1 = last.before[1].v

\* C12 as stated: a scalar whose text is the base-10 numeral of an integer k
\* decodes into an integer variable, which then holds k, if and only if k is
\* a value of the variable's type; otherwise (a numeral out of range, a text
\* that is no numeral) the call returns an error and the variable keeps its
\* value.
C12_IntegerIffRepresentable ==
    IntoInteger =>
        IF Numeral(last.node.Value) /\ Representable(T1, NumeralValue(last.node.Value))
        THEN Stored(NumeralValue(last.node.Value))
        ELSE Refused

\* the texts an integer type reads as a numeral: signed types take a sign,
\* unsigned types take digits only
Accepts(t, s) == IF t.k = "int" THEN Numeral(s) ELSE Decimal(s)

\* C12 as amended: a scalar decodes into an integer variable, which then
\* holds the number the text denotes, if and only if the text is a string of
\* decimal digits -- after an optional '+' or '-' for a signed type, with no
\* sign at all for an unsigned type -- and the number is a value of the
\* type; otherwise the call returns an error and the variable keeps its
\* value.
C12_IntegerIffAccepted ==
    IntoInteger =>
        IF Accepts(T1, last.node.Value) /\ Representable(T1, NumeralValue(last.node.Value))
        THEN Stored(NumeralValue(last.node.Value))
        ELSE Refused

C12_Witness ==
    /\ IntoInteger
    /\ T1 = Int8
    /\ last.node.Value = <<51, 48, 48>>
    /\ last.before[1].v = 7
    /\ Refused

\* Unmarshal or UnmarshalChildren was called with pointers to variables and
\* nils
Positional ==
    /\ Decoded
    /\ last.entry \in {"Unmarshal", "UnmarshalChildren"}
    /\ \A i \in 1..Len(last.args) : last.args[i] \in {"ptr", "nil"}

\* the nodes the call decodes, in order
Available ==
    IF last.entry = "Unmarshal" THEN <<last.node>> \o last.sibs ELSE last.node.Children

\* node i decoded on its own into variable i as it was before the call
Alone(i) ==
    unmarshal(Available[i], "ptr", last.before[i],
              NewDecode(IF i = 1 THEN last.heap ELSE <<>>))

\* the positions that have both a node and a pointer
Positions == {i \in 1..Len(last.args) : i <= Len(Available) /\ last.args[i] = "ptr"}

NoneFails == \A i \in Positions : Alone(i).err = Nil /\ Alone(i).d.exc = Nil

\* variable i holds what node i decodes to
Holds(i) ==
    /\ targets[i].v = Alone(i).v
    /\ i = 1 => heap = Alone(i).d.h

ShortfallReturned ==
    /\ last.err # Nil
    /\ last.panic = Nil
    /\ last.err.kind = "UnmarshalError"
    /\ last.err.Node = last.node
    /\ last.err.Type = Nil
    /\ last.err.message =
           IF last.entry = "Unmarshal"
           THEN [text |-> "siblings", have |-> Len(Available) - 1,
                 want |-> Len(last.args) - 1]
           ELSE [text |-> "children", have |-> Len(Available), want |-> Len(last.args)]

\* C13 as stated: Unmarshal (the node and its siblings) and UnmarshalChildren
\* (the children) decode node i into target i for every position that has a
\* node and a target that is not nil; a nil target takes its position
\* without a decode; nodes beyond the targets are ignored; and, no decode
\* having failed, the call returns the shortfall error if and only if there
\* are fewer nodes than targets.
C13_PositionalDecode ==
    (Positional /\ NoneFails) =>
        /\ \A i \in Positions : Holds(i)
        /\ \A i \in 1..Len(last.args) : i \notin Positions => targets[i] = last.before[i]
        /\ 1 \notin Positions => heap = last.heap
        /\ IF Len(Available) < Len(last.args) THEN ShortfallReturned ELSE Succeeded

C13_Witness ==
    /\ Positional
    /\ NoneFails
    /\ last.args = <<"nil", "ptr">>
    /\ Len(Available) > 2
    /\ targets[1] = last.before[1]
    /\ last.before[2].v = Z
    /\ targets[2].v = Available[2].Value
    /\ Succeeded

(***************************************************************************)
(* Properties of the source locations.                                     *)
(***************************************************************************)
AddFileCalled == last # Nil /\ last.op = "AddFile"

\* the file a successful AddFile appends to the files before it
Registered ==
    [name |-> Len(last.before.files) + 1,
     offset |-> IF last.before.files = <<>> THEN 0
                ELSE last.before.files[Len(last.before.files)].offset
                     + last.before.files[Len(last.before.files)].length,
     length |-> last.length,
     lines |-> <<[offset |-> 0, num |-> 1]>>]

\* C14: in any sequence of AddFile and Finalize calls on one SourceContext,
\* AddFile panics exactly when the context holds a file and the file added
\* last still has length -1, and then changes nothing; otherwise it appends
\* the new file at the offset where the file before it ends (0 for the first
\* file), with the line table holding line 1 at offset 0.
C14_AddFileAfterFinalize ==
    AddFileCalled =>
        /\ last.panic <=>
              /\ last.before.files # <<>>
              /\ last.before.files[Len(last.before.files)].length = -1
        /\ last.panic => ctx = last.before
        /\ ~last.panic => ctx.files = Append(last.before.files, Registered)

C14_Witness ==
    /\ AddFileCalled
    /\ ~last.panic
    /\ Len(ctx.files) = 3
    /\ 2 \in last.finalized
    /\ ctx.files[2].length = 2
    /\ ctx.files[3].offset = ctx.files[2].offset + 2

RECURSIVE Bytes(_)
\* the number of bytes of a stream of runes
Bytes(data) == IF data = <<>> THEN 0 ELSE RuneLen(Head(data)) + Bytes(Tail(data))

\* C15 as stated: after every return of Parse called with length -1, with a
\* tree or with an error, the file it registered has a length that is not
\* -1, so that no later Parse on the context panics in AddFile; and after a
\* Parse that returned a tree that length is the number of bytes of the
\* stream.
C15_ParseFinalizes ==
    /\ p.pc # "crashed"
    /\ Returned =>
          /\ File.length # -1
          /\ p.root # Nil => File.length = Bytes(p.r.data)

DecodeCalled == last # Nil /\ last.op = "Decode"

\* the last line marker of file f at or before offset o
Marker(f, o) ==
    CHOOSE l \in {f.lines[j] : j \in 1..Len(f.lines)} :
        /\ l.offset <= o
        /\ \A j \in 1..Len(f.lines) : f.lines[j].offset <= o => f.lines[j].offset <= l.offset

\* C16: in a context whose files all have their lengths, for every file f
\* and every offset o with 0 <= o < length(f), Decode(f.Encode(o)) is f's
\* name, the offset o, the line number of the last line marker of f at or
\* before o, and as column the number of bytes from that marker to o.
C16_DecodeInvertsEncode ==
    DecodeCalled =>
        \A i \in 1..Len(ctx.files) : \A o \in 0..(ctx.files[i].length - 1) :
            last.loc = Encode(ctx.files[i], o) =>
                last.result = [Filename |-> ctx.files[i].name,
                               Line |-> Marker(ctx.files[i], o).num,
                               Column |-> o - Marker(ctx.files[i], o).offset,
                               Offset |-> o]

C16_Witness ==
    /\ DecodeCalled
    /\ Len(ctx.files) = 3
    /\ ctx.files[1].length = 0
    /\ ctx.files[2].lines = <<[offset |-> 0, num |-> 1], [offset |-> 1, num |-> 2]>>
    /\ last.loc = Encode(ctx.files[2], 2)
    /\ last.result = [Filename |-> 2, Line |-> 2, Column |-> 1, Offset |-> 2]

(***************************************************************************)
(* Properties of parallel parsing.                                         *)
(***************************************************************************)
\* the parsers of all the goroutines
Goroutines == <<p>> \o waiting

\* file i as AddFile registered it, before any parsing
AsRegistered(i) ==
    [name |-> i,
     offset |-> IF i = 1 THEN 0 ELSE todo[1].length,
     length |-> todo[i].length,
     lines |-> <<[offset |-> 0, num |-> 1]>>]

\* what ParseFile on file i gives when nothing else runs
Sequential(i) == ParseFileAlone(todo[i], i, AsRegistered(i))

IsPrefix(s, t) == Len(s) <= Len(t) /\ s = SubSeq(t, 1, Len(s))

\* C17: when every file is registered with its length before the parsing
\* starts, ParseFile calls that run concurrently on distinct files of one
\* context do not interfere, however their steps interleave: the file list
\* stays as registered, a file is written by its own call only (its line
\* table grows as in a run on its own and its length changes at the return
\* only), and the tree, the error and the line table of each call are those
\* of a sequential run.
C17_ParallelAsSequential ==
    /\ Len(ctx.files) = Len(todo)
    /\ \A g \in 1..Len(Goroutines) :
          LET q == Goroutines[g]
              f == ctx.files[q.f]
          IN  /\ f.name = AsRegistered(q.f).name
              /\ f.offset = AsRegistered(q.f).offset
              /\ IsPrefix(f.lines, Sequential(q.f).f.lines)
              /\ q.pc = "idle" => f = AsRegistered(q.f)
              /\ q.pc # "done" => f.length = AsRegistered(q.f).length
              /\ q.pc = "done" =>
                    /\ f = Sequential(q.f).f
                    /\ q.root = Sequential(q.f).p.root
                    /\ q.err = Sequential(q.f).p.err

\* both calls have returned, the second file's before the first file's, each
\* with a line table of its own
C17_Witness ==
    /\ \A g \in 1..Len(Goroutines) : Goroutines[g].pc = "done"
    /\ Len(rets) = 2
    /\ rets[1].f = 2
    /\ todo[1].data = <<LParen, LowerA, NL, RParen>>
    /\ todo[2].data = <<LowerA, NL, LowerA>>
    /\ ctx.files[1].lines = <<[offset |-> 0, num |-> 1], [offset |-> 3, num |-> 2]>>
    /\ ctx.files[2].lines = <<[offset |-> 0, num |-> 1], [offset |-> 2, num |-> 2]>>
    /\ ctx.files[2].offset = 4

(***************************************************************************)
(* More properties of the parser.                                          *)
(***************************************************************************)
RECURSIVE TopClose(_, _, _, _)
\* The byte offset of the first ')' of the text that closes no list, by the
\* grammar; -1 when there is none before the text ends, before a NUL outside
\* a string, or before a string that holds a backslash or a newline.  depth
\* is the number of lists open; mode is as in OpenScan.
TopClose(data, off, mode, depth) ==
    IF data = <<>> THEN -1
    ELSE LET r == Head(data)
             rest == Tail(data)
             o == off + RuneLen(r)
         IN  CASE mode = "string" ->
                    IF r = DQuote THEN TopClose(rest, o, "node", depth)
                    ELSE IF r \in {Backslash, NL} THEN -1
                    ELSE TopClose(rest, o, "string", depth)
               [] mode = "raw" ->
                    IF r = BQuote THEN TopClose(rest, o, "node", depth)
                    ELSE TopClose(rest, o, "raw", depth)
               [] mode = "comment" ->
                    IF r = NUL THEN -1
                    ELSE IF r = NL THEN TopClose(rest, o, "node", depth)
                    ELSE TopClose(rest, o, "comment", depth)
               [] OTHER ->
                    IF r = NUL THEN -1
                    ELSE IF r = RParen
                    THEN IF depth = 0 THEN off ELSE TopClose(rest, o, "node", depth - 1)
                    ELSE IF is_space(r) THEN TopClose(rest, o, "node", depth)
                    ELSE IF r = Semi THEN TopClose(rest, o, "comment", depth)
                    ELSE IF mode = "atom" THEN TopClose(rest, o, "atom", depth)
                    ELSE IF r = LParen THEN TopClose(rest, o, "node", depth + 1)
                    ELSE IF r = DQuote THEN TopClose(rest, o, "string", depth)
                    ELSE IF r = BQuote THEN TopClose(rest, o, "raw", depth)
                    ELSE TopClose(rest, o, "atom", depth)

\* C18: a ')' met at the top level while no list is open -- at the start of
\* the text, after a comment or after complete top-level nodes -- makes
\* Parse fail with the error "unexpected ')' at the top level" located at
\* that ')'; it is not skipped and does not end the input.
C18_TopLevelCloseFails ==
    (Returned /\ TopClose(p.r.data, 0, "node", 0) >= 0) =>
        /\ p.root = Nil
        /\ p.err = NewError(File.offset + TopClose(p.r.data, 0, "node", 0), "rparen", 0)

\* C18's case: the ')' follows a comment, in a file that does not start the
\* context
C18_Witness ==
    /\ Returned
    /\ p.r.data = <<Semi, NL, RParen>>
    /\ File.offset = 2
    /\ p.err = NewError(4, "rparen", 0)

RECURSIVE From(_, _)
\* the runes of data from byte offset off on
From(data, off) ==
    IF data = <<>> \/ off <= 0 THEN data ELSE From(Tail(data), off - RuneLen(Head(data)))

RECURSIVE AtomText(_)
\* the bytes of the runes of data up to the first whitespace, ')' or ';', or
\* to the end
AtomText(data) ==
    IF data = <<>> \/ is_space(Head(data)) \/ Head(data) \in {RParen, Semi} THEN <<>>
    ELSE WriteRune(<<>>, Head(data)) \o AtomText(Tail(data))

\* the nodes of the returned tree that start at a character which opens no
\* list and no string: the bare atoms
AtomNodes ==
    {n \in Nodes(p.root) :
        RuneAt(p.r.data, n.Location - File.offset) \notin {-1, LParen, DQuote, BQuote}}

\* C19 as stated: a bare atom extends from its first character up to, and
\* without, the first whitespace, ')' or ';' after it, or to the end of the
\* input; a '(', '`' or '"' after its first character is part of its Value.
C19_AtomExtent ==
    (Returned /\ p.root # Nil) =>
        \A n \in AtomNodes : n.Value = AtomText(From(p.r.data, n.Location - File.offset))

RECURSIVE Strip(_, _)
\* The text without its comments, by the grammar: a ';' where a node may
\* start, or right after an atom, is dropped with what follows it up to the
\* next newline (which stays) or to the end; a ';' in a string stays.  mode
\* is as in OpenScan.
Strip(data, mode) ==
    IF data = <<>> THEN <<>>
    ELSE LET r == Head(data)
             rest == Tail(data)
         IN  CASE mode = "string" ->
                    <<r>> \o Strip(rest, IF r = DQuote THEN "node"
                                         ELSE IF r = Backslash THEN "esc" ELSE "string")
               [] mode = "esc" -> <<r>> \o Strip(rest, "string")
               [] mode = "raw" -> <<r>> \o Strip(rest, IF r = BQuote THEN "node" ELSE "raw")
               [] mode = "comment" ->
                    IF r = NL THEN <<r>> \o Strip(rest, "node") ELSE Strip(rest, "comment")
               [] OTHER ->
                    IF r = Semi THEN Strip(rest, "comment")
                    ELSE IF is_space(r) \/ r = RParen THEN <<r>> \o Strip(rest, "node")
                    ELSE IF mode = "atom" THEN <<r>> \o Strip(rest, "atom")
                    ELSE IF r = LParen THEN <<r>> \o Strip(rest, "node")
                    ELSE IF r = DQuote THEN <<r>> \o Strip(rest, "string")
                    ELSE IF r = BQuote THEN <<r>> \o Strip(rest, "raw")
                    ELSE <<r>> \o Strip(rest, "atom")

RECURSIVE Shape(_)
RECURSIVE Shapes(_)
\* a tree without its locations
Shape(n) == [Value |-> n.Value, Children |-> Shapes(n.Children)]
Shapes(cs) == IF cs = <<>> THEN <<>> ELSE <<Shape(Head(cs))>> \o Shapes(Tail(cs))

\* Parse of the text without its comments, in a context of its own
WithoutComments ==
    ParseFileAlone([data |-> Strip(p.r.data, "node"), fail |-> p.r.fail], 1,
                   NewFile([files |-> <<>>], 1, -1)).p

\* C20 as stated: a ';' where a node is expected -- at the top level, in a
\* list at any depth, right after an atom, just before the end of the input
\* -- starts a comment that runs to the next newline or to the end and gives
\* no node: Parse returns the tree (values and structure) it returns for
\* the text without these comments, and fails if and only if it fails on
\* that text; a ';' in a quoted or raw string is text.  (Streams that end
\* in io.EOF.)
C20_CommentsTransparent ==
    (Returned /\ ~p.r.fail) =>
        /\ p.root = Nil <=> WithoutComments.root = Nil
        /\ p.root # Nil => Shape(p.root) = Shape(WithoutComments.root)

(***************************************************************************)
(* parser_test.go: the serializer of a tree, format_siblings, and the %q   *)
(* verb of fmt it writes a scalar with (strconv.Quote).  A text is the     *)
(* sequence of its bytes.                                                  *)
(***************************************************************************)
\* utf8.DecodeRuneInString: the rune the bytes start with and its width;
\* U+FFFD and width 1 for bytes that are no encoding of a rune
DecodeRune(s) ==
    LET b0 == s[1]
        IsCont(b) == b >= 128 /\ b <= 191
        bad == [r |-> 65533, width |-> 1]
        lo2 == IF b0 = 224 THEN 160 ELSE IF b0 = 240 THEN 144 ELSE 128
        hi2 == IF b0 = 237 THEN 159 ELSE IF b0 = 244 THEN 143 ELSE 191
    IN  IF b0 < 128 THEN [r |-> b0, width |-> 1]
        ELSE IF b0 >= 194 /\ b0 <= 223
        THEN IF Len(s) >= 2 /\ IsCont(s[2])
             THEN [r |-> (b0 - 192) * 64 + (s[2] - 128), width |-> 2]
             ELSE bad
        ELSE IF b0 >= 224 /\ b0 <= 239
        THEN IF Len(s) >= 3 /\ s[2] >= lo2 /\ s[2] <= hi2 /\ IsCont(s[3])
             THEN [r |-> (b0 - 224) * 4096 + (s[2] - 128) * 64 + (s[3] - 128), width |-> 3]
             ELSE bad
        ELSE IF b0 >= 240 /\ b0 <= 244
        THEN IF Len(s) >= 4 /\ s[2] >= lo2 /\ s[2] <= hi2 /\ IsCont(s[3]) /\ IsCont(s[4])
             THEN [r |-> (b0 - 240) * 262144 + (s[2] - 128) * 4096 + (s[3] - 128) * 64
                         + (s[4] - 128),
                   width |-> 4]
             ELSE bad
        ELSE bad

RECURSIVE Runes(_)
\* bufio.Reader.ReadRune over a text: the runes of its bytes
Runes(s) ==
    IF s = <<>> THEN <<>>
    ELSE <<DecodeRune(s).r>> \o Runes(SubSeq(s, DecodeRune(s).width + 1, Len(s)))

RECURSIVE HexOf(_, _)
\* the n lower-case hex digits of v
HexOf(v, n) ==
    LET d == v % 16
    IN  IF n = 0 THEN <<>>
        ELSE Append(HexOf(v \div 16, n - 1), IF d < 10 THEN 48 + d ELSE 87 + d)

\* unicode.IsPrint on the runes a Value of the model can hold: the ASCII
\* graphic characters and space, the letter U+0436 and U+FFFD; the control
\* characters and the private-use U+101234 are not printable
IsPrint(r) == (r >= 32 /\ r <= 126) \/ r = Zhe \/ r = 65533

\* strconv.appendEscapedRune for the quote '"'
appendEscapedRune(buf, r) ==
    IF r = DQuote \/ r = Backslash THEN buf \o <<Backslash, r>>
    ELSE IF IsPrint(r) THEN WriteRune(buf, r)
    ELSE CASE r = 7 -> buf \o <<Backslash, 97>>
           [] r = 8 -> buf \o <<Backslash, 98>>
           [] r = 12 -> buf \o <<Backslash, 102>>
           [] r = 10 -> buf \o <<Backslash, 110>>
           [] r = 13 -> buf \o <<Backslash, 114>>
           [] r = 9 -> buf \o <<Backslash, 116>>
           [] r = 11 -> buf \o <<Backslash, 118>>
           [] OTHER ->
                IF r < 32 \/ r = 127 THEN buf \o <<Backslash, LowerX>> \o HexOf(r, 2)
                ELSE IF r < 65536 THEN buf \o <<Backslash, 117>> \o HexOf(r, 4)
                ELSE buf \o <<Backslash, 85>> \o HexOf(r, 8)

RECURSIVE appendQuoted(_, _)
\* the loop of strconv.appendQuotedWith: a byte that starts no rune is
\* written as \xHH
appendQuoted(buf, s) ==
    IF s = <<>> THEN buf
    ELSE LET d == DecodeRune(s)
             rest == SubSeq(s, d.width + 1, Len(s))
         IN  IF d.width = 1 /\ d.r = 65533
             THEN appendQuoted(buf \o <<Backslash, LowerX>> \o HexOf(s[1], 2), rest)
             ELSE appendQuoted(appendEscapedRune(buf, d.r), rest)

\* mutant: the Value is written between quotes as it is
Quote_verbatim(s) == <<DQuote>> \o s \o <<DQuote>>

\* fmt's %q of a string: strconv.Quote
Quote(s) == Append(appendQuoted(<<DQuote>>, s), DQuote)

RECURSIVE format_tree(_)
RECURSIVE format_children(_)
\* the loop of format_tree over the children of a list
format_children(cs) ==
    IF Len(cs) = 1 THEN format_tree(cs[1])
    ELSE format_tree(Head(cs)) \o <<Space>> \o format_children(Tail(cs))

format_tree(n) ==
    IF IsList(n) THEN <<LParen>> \o format_children(n.Children) \o <<RParen>>
    ELSE Quote(n.Value)

RECURSIVE format_siblings(_)
format_siblings(cs) ==
    IF cs = <<>> THEN <<>>
    ELSE format_tree(Head(cs)) \o (IF Tail(cs) # <<>> THEN <<Space>> ELSE <<>>)
         \o format_siblings(Tail(cs))

(***************************************************************************)
(* Properties of the escapes of quoted strings.                            *)
(***************************************************************************)
\* the byte each one-character escape stands for: \a \b \f \n \r \t \v \\ \"
EscapeTable ==
    (97 :> 7) @@ (98 :> 8) @@ (102 :> 12) @@ (110 :> 10) @@ (114 :> 13) @@
    (116 :> 9) @@ (118 :> 11) @@ (Backslash :> Backslash) @@ (DQuote :> DQuote)

IsHexDigit(r) == r \in 48..57 \/ r \in 65..70 \/ r \in 97..102

HexDigitValue(r) ==
    IF r \in 48..57 THEN r - 48 ELSE IF r \in 65..70 THEN r - 55 ELSE r - 87

RECURSIVE HexScan(_, _, _)
\* The n hex digits data starts with: their value (a code point above
\* U+10FFFF is kept as 1114112) and what follows them, or the first rune
\* that is no hex digit, or "none" when the text ends before.
HexScan(data, n, acc) ==
    IF n = 0 THEN [kind |-> "value", v |-> acc, rest |-> data]
    ELSE IF data = <<>> THEN [kind |-> "none", v |-> 0, rest |-> <<>>]
    ELSE IF ~IsHexDigit(Head(data)) THEN [kind |-> "hex", v |-> Head(data), rest |-> <<>>]
    ELSE LET v == acc * 16 + HexDigitValue(Head(data))
         IN  HexScan(Tail(data), n - 1, IF v > 1114111 THEN 1114112 ELSE v)

\* the number of hex digits after an escape letter; \u and \U count when wide
HexDigits(c, wide) ==
    IF c = LowerX THEN 2
    ELSE IF wide /\ c = 117 THEN 4
    ELSE IF wide /\ c = 85 THEN 8
    ELSE 0

RECURSIVE Quoted(_, _, _, _)
\* What a quoted string is, by the rules of the escapes: data is the text
\* after the opening quote, off its byte offset, val the bytes so far.  The
\* result is the string's Value and the offset after its closing quote, or
\* the unrecognized escape and the offset of its backslash, or the rune met
\* where a hex digit is required, or "none" when the string holds a newline
\* or the text ends in it.
Quoted(data, off, val, wide) ==
    LET none == [kind |-> "none", val |-> <<>>, off |-> off, arg |-> 0]
    IN  IF data = <<>> \/ Head(data) = NL THEN none
        ELSE IF Head(data) = DQuote
        THEN [kind |-> "value", val |-> val, off |-> off + 1, arg |-> 0]
        ELSE IF Head(data) # Backslash
        THEN Quoted(Tail(data), off + RuneLen(Head(data)), WriteRune(val, Head(data)), wide)
        ELSE IF Len(data) < 2 THEN none
        ELSE LET c == data[2]
                 rest == Tail(Tail(data))
                 n == HexDigits(c, wide)
                 h == HexScan(rest, n, 0)
             IN  IF c \in DOMAIN EscapeTable
                 THEN Quoted(rest, off + 2, Append(val, EscapeTable[c]), wide)
                 ELSE IF n = 0
                 THEN [kind |-> "esc", val |-> <<>>, off |-> off, arg |-> 0]
                 ELSE IF h.kind = "none" THEN none
                 ELSE IF h.kind = "hex"
                 THEN [kind |-> "hex", val |-> <<>>, off |-> off, arg |-> h.v]
                 ELSE Quoted(h.rest, off + 2 + n,
                             IF n = 2 THEN Append(val, h.v) ELSE WriteRune(val, h.v), wide)

\* Parse has returned what the rules give for the quoted string the text
\* starts with
EscapesAsRuled(wide) ==
    (Returned /\ p.r.data # <<>> /\ Head(p.r.data) = DQuote) =>
        LET q == Quoted(Tail(p.r.data), 1, <<>>, wide)
        IN  /\ q.kind = "value" =>
                  /\ p.root # Nil => p.root.Children[1] = NewNode(File.offset, q.val, <<>>)
                  /\ p.err # Nil => p.err.Location >= File.offset + q.off
            /\ q.kind = "esc" =>
                  /\ p.root = Nil
                  /\ p.err = NewError(File.offset + q.off, "esc", 0)
            /\ q.kind = "hex" =>
                  /\ p.root = Nil
                  /\ p.err # Nil /\ p.err.kind = "hex" /\ p.err.arg = q.arg

\* C21 as stated: in a quoted string each of \a \b \f \n \r \t \v \\ \"
\* gives its one byte, \xHH gives the byte of that hex value, a backslash
\* followed by any other character makes Parse fail with "unrecognized
\* escape sequence" located at the backslash, and a character that is no hex
\* digit where one is required makes Parse fail with an error naming it.
C21_EscapesOneByte == EscapesAsRuled(FALSE)

\* C21 as amended: the same, and \uHHHH and \UHHHHHHHH are escapes too: they
\* give the UTF-8 bytes of that code point (of U+FFFD when it is no valid
\* code point); "any other character" is any but these twelve.
C21_EscapesWithCodePoints == EscapesAsRuled(TRUE)

\* C21's case: a \xHH escape after a character, in a file that does not
\* start the context
C21_Witness ==
    /\ Returned
    /\ p.r.data = <<DQuote, LowerA, Backslash, LowerX, 70, 102, DQuote>>
    /\ File.offset = 2
    /\ p.root # Nil
    /\ p.root.Children = <<NewNode(2, <<LowerA, 255>>, <<>>)>>

(***************************************************************************)
(* The round trip through the serializer.                                  *)
(***************************************************************************)
\* the text format_siblings writes for the returned tree
Serialized == format_siblings(p.root.Children)

\* Parse of that text, in a context of its own
Reparsed ==
    ParseFileAlone([data |-> Runes(Serialized), fail |-> FALSE], 1,
                   NewFile([files |-> <<>>], 1, -1)).p

\* C22: when Parse returns a tree, serializing its top-level nodes (a list
\* with children as its items between parentheses, separated by spaces; any
\* other node as a quoted string with escapes) and parsing that text gives,
\* without error, a tree of the same structure: the same nesting, the same
\* order and the same Value at every node.
C22_RoundTrip ==
    (Returned /\ p.root # Nil) =>
        /\ Reparsed.err = Nil
        /\ Reparsed.root # Nil
        /\ Shape(Reparsed.root) = Shape(p.root)

\* C22's case: a list that holds an empty list and a string with a quote
\* and a backslash in it
C22_Witness ==
    /\ Returned
    /\ p.root # Nil
    /\ p.r.data = <<LParen, LParen, RParen, BQuote, DQuote, Backslash, BQuote, RParen>>
    /\ Serialized = <<LParen, DQuote, DQuote, Space, DQuote, Backslash, DQuote,
                      Backslash, Backslash, DQuote, RParen>>
    /\ Shape(Reparsed.root) = Shape(p.root)

(***************************************************************************)
(* Termination of the parser.                                              *)
(***************************************************************************)
\* C23: Parse terminates on every finite stream and returns a tree or an
\* error.  A step of the model is one iteration of a loop of the parser (the
\* top-level loop, parse_list, the string and atom scanners, skip_comment,
\* skip_spaces) or an entry to one, and the state holds the position in the
\* stream: an iteration that neither read a character nor ended its loop,
\* also after parse_node returned nil at a ')', would let the call run for
\* ever.
C23_ParseTerminates ==
    <>(/\ Returned
       /\ Len(rets) = 1
       /\ rets[1].root = Nil <=> rets[1].err # Nil)

\* C23's case: in a list, a comment was skipped and parse_node returned nil
\* at the ')' after it; parse_list went round its loop and closed the list
C23_Witness ==
    /\ Returned
    /\ p.r.data = <<LParen, LowerA, Semi, LowerA, NL, LParen, Semi, NL, RParen, RParen>>
    /\ p.r.eof
    /\ p.root # Nil
    /\ Shape(p.root.Children[1]).Children
          = <<[Value |-> <<LowerA>>, Children |-> <<>>], [Value |-> <<>>, Children |-> <<>>]>>

(***************************************************************************)
(* The delimiter state.                                                    *)
(***************************************************************************)
\* a Parse call is between two of its steps
Running == p.pc \in {"loop", "again", "comment", "string", "esc", "hex", "raw", "ident"}

\* the text the parser has gone past: all of it once the end was read, else
\* what comes before the current character
Processed ==
    IF p.r.eof THEN p.r.data ELSE SubSeq(p.r.data, 1, p.r.pos - 2)

\* the constructs open at this point, by the grammar
OpenNow == OpenScan(Processed, 0, "node", <<>>)

\* C24: at every point of a parse, expect_eof is true if and only if no
\* list, quoted string or raw string is open; when one is open the tracked
\* (offset, opening character) is that of the innermost open construct; and
\* a close puts back the pair and the flag in force before the construct
\* was opened, at any depth: those of the enclosing construct, or the
\* initial pair (-1, none) at the top level.
C24_DelimStateTracksOpen ==
    Running =>
        /\ p.expect_eof <=> OpenNow = <<>>
        /\ OpenNow # <<>> => p.last_seq = OpenNow[Len(OpenNow)]
        /\ OpenNow = <<>> => p.last_seq = [offset |-> -1, rune |-> 0]

\* C24's case: a quoted string was closed in the third of three nested
\* lists, after a two-byte rune
C24_Witness ==
    /\ Running
    /\ Len(p.r.data) = 17
    /\ SubSeq(p.r.data, 1, 11)
          = <<LParen, LowerA, Space, LParen, Zhe, Space, LParen, DQuote, NUL, DQuote,
              RParen>>
    /\ p.pc = "loop"
    /\ p.offset = 11
    /\ Len(OpenNow) = 3
    /\ p.last_seq = [offset |-> 7, rune |-> LParen]
    /\ ~p.expect_eof

(***************************************************************************)
(* The line table.                                                         *)
(***************************************************************************)
RECURSIVE LineMarkers(_, _, _)
\* one marker per newline of the text: its line number, counted from num,
\* and the byte offset just after the newline; off is the offset of the text
LineMarkers(data, off, num) ==
    IF data = <<>> THEN <<>>
    ELSE IF Head(data) = NL
    THEN <<[offset |-> off + 1, num |-> num]>> \o LineMarkers(Tail(data), off + 1, num + 1)
    ELSE LineMarkers(Tail(data), off + RuneLen(Head(data)), num)

\* the text read from the stream so far
ReadSoFar == SubSeq(p.r.data, 1, p.r.pos - 1)

\* C25: during and after a parse the file's line table is (offset 0, line 1)
\* followed by exactly one marker per newline read so far, wherever the
\* newline is; the k-th of them has line number k+1 and the byte offset just
\* after the k-th newline, so offsets and line numbers strictly increase.
C25_LineTable ==
    p.pc # "idle" =>
        /\ File.lines = <<[offset |-> 0, num |-> 1]>> \o LineMarkers(ReadSoFar, 0, 2)
        /\ \A k \in 2..Len(File.lines) :
              /\ File.lines[k].num = k
              /\ File.lines[k].offset > File.lines[k - 1].offset
              /\ RuneAt(p.r.data, File.lines[k].offset - 1) = NL

\* C25's case: two newlines that end comments, in a list and in a list of
\* that list
C25_Witness ==
    /\ Returned
    /\ p.r.data = <<LParen, LowerA, Semi, LowerA, NL, LParen, Semi, NL, RParen, RParen>>
    /\ File.lines = <<[offset |-> 0, num |-> 1], [offset |-> 5, num |-> 2],
                      [offset |-> 8, num |-> 3]>>

(***************************************************************************)
(* What a nil error means.                                                 *)
(***************************************************************************)
RECURSIVE TopNodes(_, _, _)
\* The number of top-level nodes of a text, by the grammar, a NUL being a
\* character like any other: an atom, a string or a list that starts while
\* depth lists are open counts when depth is 0.  mode is as in OpenScan.
TopNodes(data, mode, depth) ==
    IF data = <<>> THEN 0
    ELSE LET r == Head(data)
             rest == Tail(data)
             one == IF depth = 0 THEN 1 ELSE 0
         IN  CASE mode = "string" ->
                    TopNodes(rest, IF r = DQuote THEN "node"
                                   ELSE IF r = Backslash THEN "esc" ELSE "string", depth)
               [] mode = "esc" -> TopNodes(rest, "string", depth)
               [] mode = "raw" -> TopNodes(rest, IF r = BQuote THEN "node" ELSE "raw", depth)
               [] mode = "comment" ->
                    TopNodes(rest, IF r = NL THEN "node" ELSE "comment", depth)
               [] OTHER ->
                    IF is_space(r) THEN TopNodes(rest, "node", depth)
                    ELSE IF r = RParen
                    THEN TopNodes(rest, "node", IF depth > 0 THEN depth - 1 ELSE 0)
                    ELSE IF r = Semi THEN TopNodes(rest, "comment", depth)
                    ELSE IF mode = "atom" THEN TopNodes(rest, "atom", depth)
                    ELSE IF r = LParen THEN one + TopNodes(rest, "node", depth + 1)
                    ELSE IF r = DQuote THEN one + TopNodes(rest, "string", depth)
                    ELSE IF r = BQuote THEN one + TopNodes(rest, "raw", depth)
                    ELSE one + TopNodes(rest, "atom", depth)

\* C26 as stated: when Parse returns a nil error, the stream was read up to
\* its end (the reader has met io.EOF after the last character), no list
\* is left open, and the root has one child per top-level node of the
\* input; also for an input with a NUL outside a string.
C26_NilErrorMeansWholeInput ==
    (Returned /\ p.err = Nil) =>
        /\ p.r.eof
        /\ p.r.pos = Len(p.r.data) + 1
        /\ p.frames = <<>>
        /\ Len(p.root.Children) = TopNodes(p.r.data, "node", 0)

====
